---- MODULE Spec2Model ----
(***************************************************************************)
(* Model of the qTest extraction engine of excel_to_qTest_result_uploader. *)
(*                                                                         *)
(* Fetch phase (modules/qtest_extract.py):                                 *)
(*   search_qTest_for_test_cases -> extract_test_cases (one coroutine per  *)
(*   chunk of identifiers) -> make_search_requests (page 1, then the       *)
(*   pages 2..total_pages as tasks under an asyncio.Semaphore) ->          *)
(*   fetch_with_retries (the retry loop of one search request).            *)
(*                                                                         *)
(* The event loop is single-threaded: a step of the model is what one      *)
(* coroutine does between two suspension points (the network call of an    *)
(* attempt, a backoff sleep, the acquisition of the semaphore, a gather).  *)
(***************************************************************************)
EXTENDS Integers, Sequences, FiniteSets, TLC

VARIABLES
    CONFIG,          \* the configuration read by the fetch (read-only)
    test_case_pids,  \* the identifier list handed to search_qTest_for_test_cases
    remote,          \* the identifiers for which the remote service holds a case
    served_page_size, \* the page size the remote service serves and reports
    fetch,           \* extract_test_cases: its position, its result or its error
    chunk,           \* chunk[c]: the make_search_requests call of search query c
    calls            \* calls[c][p]: the fetch_with_retries call for page p of chunk c

\* The pipeline after the fetch (main_apitryout.py, lines 398-426).
VARIABLES
    pc,                \* the statement of the main script the run has reached
    auto_result_df,    \* the result targets read from the workbook
    fetched_df,        \* the case table returned by the search (line 398)
    test_case_df,      \* the case table after version resolution (line 400)
    updated_cases_df,  \* the changed subset returned by the resolver
    unpacked_step_df,  \* the step table returned by unpack_case_steps (line 401)
    test_case_step_df, \* the step table returned by update_case_steps (line 402)
    loop,              \* the loop a blocking helper was called from: index, rows so far
    http,              \* the blocking request in flight: endpoint, key, attempt,
                       \* status of the last response received (0: none yet)
    requests,          \* the requests issued so far, as (endpoint, key) pairs
    returns,           \* what each version / steps lookup returned, in call order
    suite_id,          \* the id returned by create_test_suite (0: none)
    test_runs,         \* the run records returned by create_test_runs
    error              \* the exception that ended the run ("none": none)

pvars == <<pc, auto_result_df, fetched_df, test_case_df, updated_cases_df,
           unpacked_step_df, test_case_step_df, loop, http, requests, returns,
           suite_id, test_runs, error>>

fvars == <<CONFIG, test_case_pids, remote, served_page_size, fetch, chunk, calls>>

vars == <<fvars, pvars>>

NoRequest == [endpoint |-> "none", key |-> 0, attempt |-> 0, last |-> 0]
NoLoop == [i |-> 0, rows |-> <<>>]
NoFrame == [columns |-> {}, rows |-> <<>>]

\* The pipeline has not started.
PipelineIdle ==
    /\ pc = "idle"
    /\ auto_result_df = <<>>
    /\ fetched_df = <<>>
    /\ test_case_df = <<>>
    /\ updated_cases_df = <<>>
    /\ unpacked_step_df = NoFrame
    /\ test_case_step_df = NoFrame
    /\ loop = NoLoop
    /\ http = NoRequest
    /\ requests = {}
    /\ returns = <<>>
    /\ suite_id = 0
    /\ test_runs = NoFrame
    /\ error = "none"

(***************************************************************************)
(* Bounds and input sets.                                                  *)
(***************************************************************************)
\* request_retries ranges over 0..MaxRetries (the schema accepts 0..10).
MaxRetries == 3

\* The identifier lists tried (duplicate-free, as main's .unique() leaves them).
PidLists ==
    { <<>>,
      <<"TC-1">>,
      <<"TC-2", "TC-1">>,
      <<"TC-1", "TC-2", "TC-3">>,
      <<"TC-1", "TC-2", "TC-3", "TC-4">> }

AllPids == {"TC-1", "TC-2", "TC-3", "TC-4"}

ChunkSizes == {2, 3, 4}          \* values of case_search_chunk_size
PageSizes == {1, 2}           \* values of request_page_size
ConcurrencyLimits == {1, 2}   \* values of max_concurrent_requests

\* What one attempt can end in: an HTTP status, or an exception of the
\* transport (connection error, timeout) raised by session.post.
Statuses == {200, 404, 503}
Responses ==
    { [kind |-> "status", status |-> s] : s \in Statuses }
    \cup { [kind |-> "exception", status |-> 0] }
    \cup { [kind |-> "no_total", status |-> 200] }

Min(a, b) == IF a <= b THEN a ELSE b

RECURSIVE Flatten(_)
Flatten(seqs) ==
    IF seqs = <<>> THEN <<>> ELSE Head(seqs) \o Flatten(Tail(seqs))

(***************************************************************************)
(* The remote search endpoint: the records matching a query are the        *)
(* identifiers of the query that exist remotely; a page is a slice of      *)
(* them. The service serves pages of the requested size or, when it caps   *)
(* the page size, of a smaller one, and reports the total and the page     *)
(* size it used.                                                           *)
(***************************************************************************)
Matching(query) == SelectSeq(query, LAMBDA pid : pid \in remote)

PageItems(query, page) ==
    LET m == Matching(query)
        s == served_page_size
    IN  SubSeq(m, (page - 1) * s + 1, Min(page * s, Len(m)))

NoData == [none |-> TRUE, total |-> 0, page_size |-> 0, items |-> <<>>]

SearchBody(query, page) ==
    [none |-> FALSE,
     total |-> Len(Matching(query)),
     page_size |-> served_page_size,
     items |-> PageItems(query, page)]

\* A 200 body that carries its items but no "total" key.
SearchBodyNoTotal(query, page) ==
    [none |-> FALSE,
     page_size |-> served_page_size,
     items |-> PageItems(query, page)]

\* first_page_data.get("total", 0)
Total(data) == IF "total" \in DOMAIN data THEN data.total ELSE 0

(***************************************************************************)
(* fetch_with_retries: one search request with its retry loop.             *)
(***************************************************************************)
NoError == [kind |-> "none", status |-> 0]

NewCall ==
    [st |-> "waiting", attempt |-> 0, reqPages |-> <<>>, status |-> 0,
     delays |-> <<>>, data |-> NoData, error |-> NoError]

IsSuccess(status) == status = 200

\* Mutant: every status from 400 up is taken for a server error.
IsServerErrorFrom400(status) == status >= 400

IsServerError(status) == 500 <= status /\ status < 600

\* Mutant: the last attempt is recognised one attempt too late.
IsLastAttemptLate(attempt, max_retries) == attempt > max_retries

IsLastAttempt(attempt, max_retries) == attempt = max_retries

\* Mutant: the exponent counts attempts from 0.
BackoffFromZero(attempt) == 2 ^ (attempt - 1)

Backoff(attempt) == 2 ^ attempt

\* The head of the for loop: the next attempt posts the request with the page
\* number params holds at that moment; past range(1, max_retries + 1) the
\* function falls off its end and returns None.
NextAttempt(call, page, max_retries) ==
    IF call.attempt + 1 <= max_retries
    THEN [call EXCEPT !.st = "inflight",
                      !.attempt = @ + 1,
                      !.reqPages = Append(@, page)]
    ELSE [call EXCEPT !.st = "returned", !.data = NoData]

\* The body of the loop once the attempt's response (or exception) is there.
OnResponse(call, resp, body, max_retries) ==
    LET c1 == [call EXCEPT !.status = resp.status]
    IN  IF resp.kind = "exception"
        THEN [c1 EXCEPT !.st = "raised",
                        !.error = [kind |-> "transport", status |-> 0]]
        ELSE IF IsSuccess(resp.status)
        THEN [c1 EXCEPT !.st = "returned", !.data = body]
        ELSE IF IsServerError(resp.status)
        THEN IF IsLastAttempt(c1.attempt, max_retries)
             THEN [c1 EXCEPT !.st = "raised",
                             !.error = [kind |-> "exhausted",
                                        status |-> resp.status]]
             ELSE [c1 EXCEPT !.st = "sleeping",
                             !.delays = Append(@, Backoff(c1.attempt))]
        ELSE [c1 EXCEPT !.st = "raised",
                        !.error = [kind |-> "rejected", status |-> resp.status]]

Ended(call) == call.st \in {"returned", "raised"}

(***************************************************************************)
(* extract_test_cases: the search queries, one per chunk.                  *)
(***************************************************************************)
\* Mutant: one query more than the full chunks, also when nothing is left.
NumQueriesExtra(pids, chunk_size) == Len(pids) \div chunk_size + 1

NumQueries(pids, chunk_size) == (Len(pids) + chunk_size - 1) \div chunk_size

search_queries(pids, chunk_size) ==
    [i \in 1..NumQueries(pids, chunk_size) |->
        SubSeq(pids, (i - 1) * chunk_size + 1, Min(i * chunk_size, Len(pids)))]

(***************************************************************************)
(* make_search_requests: one chunk.                                        *)
(***************************************************************************)
total_pages(total_records, page_size) ==
    (total_records + page_size - 1) \div page_size

PageTasks(tp) == 2..tp

\* Mutant: page 2 is requested along with page 1.
InitialCallsEager(max_retries) ==
    [p \in {1, 2} |-> NextAttempt(NewCall, p, max_retries)]

\* The calls a chunk has issued when it first suspends: the first page only.
InitialCalls(max_retries) ==
    [p \in {1} |-> NextAttempt(NewCall, 1, max_retries)]

\* Mutant: the semaphore admits a task whatever its value.
CanAcquireAlways(value) == TRUE

CanAcquire(value) == value > 0

\* What fetch_page returns from the data of its call.
PageResult(call) == IF call.data.none THEN <<>> ELSE call.data.items

\* The loop over the gathered results: the first exception in task order is
\* raised, otherwise every page's items are appended to those of page 1.
\* Mutant: the exceptions among the gathered results are skipped.
GatherFailedSkipped(cs, tp) == {}

GatherFailed(cs, tp) == {p \in PageTasks(tp) : cs[p].st = "raised"}

\* Mutant: the pages are appended from the last one down.
GatherResultsReversed(cs, tp) ==
    PageResult(cs[1]) \o Flatten([i \in 1..(tp - 1) |-> PageResult(cs[tp + 1 - i])])

GatherResults(cs, tp) ==
    PageResult(cs[1]) \o Flatten([i \in 1..(tp - 1) |-> PageResult(cs[i + 1])])

\* Mutant: the exception of the highest failed page is raised.
FirstFailedHighest(cs, tp) ==
    CHOOSE p \in GatherFailed(cs, tp) : \A q \in GatherFailed(cs, tp) : p >= q

FirstFailed(cs, tp) ==
    CHOOSE p \in GatherFailed(cs, tp) : \A q \in GatherFailed(cs, tp) : p <= q

\* `completed` lists the page tasks in the order in which they ended.
NewChunk(query) ==
    [query |-> query, phase |-> "first", total_pages |-> 0, semaphore |-> 0,
     page |-> 1, results |-> <<>>, error |-> NoError, completed |-> <<>>]

Raise(ch, err) == [ch EXCEPT !.phase = "raised", !.error = err]

\* The chunk after its first-page call has ended.
AfterFirstPage(ch, call) ==
    IF call.st = "raised" THEN Raise(ch, call.error)
    ELSE IF call.data.none THEN Raise(ch, [kind |-> "nodata", status |-> 0])
    ELSE LET tp == total_pages(Total(call.data), CONFIG.request_page_size)
         IN  IF tp > 1
             THEN [ch EXCEPT !.phase = "pages",
                             !.total_pages = tp,
                             !.semaphore = CONFIG.max_concurrent_requests,
                             !.results = call.data.items]
             ELSE [ch EXCEPT !.phase = "returned",
                             !.total_pages = tp,
                             !.results = call.data.items]

\* The calls of the chunk after the first-page call has ended: one task per
\* page 2..total_pages, each waiting for the semaphore.
CallsAfterFirstPage(ch1, call) ==
    [p \in {1} \cup (IF ch1.phase = "pages" THEN PageTasks(ch1.total_pages) ELSE {})
        |-> IF p = 1 THEN call ELSE NewCall]

\* gather(*tasks) of extract_test_cases: the first chunk task that ends in an
\* exception sets the exception of the gather; extract_test_cases is resumed
\* with it later (RaiseExtract), and the exceptions of the chunk tasks that
\* end after it are dropped.
FirstException(f, ch) ==
    IF ch.phase = "raised" /\ f.error = NoError
    THEN [f EXCEPT !.error = ch.error]
    ELSE f

(***************************************************************************)
(* State machine.                                                          *)
(***************************************************************************)
\* The event loop of asyncio.run is running the chunk tasks: until
\* extract_test_cases has returned, and, when it has raised ("raising"),
\* until asyncio.run cancels the tasks that are left.
LoopRunning == fetch.st \in {"running", "raising"}

Configs ==
    [case_search_chunk_size : ChunkSizes,
     request_page_size : PageSizes,
     request_retries : 0..MaxRetries,
     max_concurrent_requests : ConcurrencyLimits]

Init ==
    /\ CONFIG \in Configs
    /\ test_case_pids \in PidLists
    /\ remote \in SUBSET {test_case_pids[i] : i \in DOMAIN test_case_pids}
    /\ served_page_size \in {s \in PageSizes : s <= CONFIG.request_page_size}
    /\ fetch = [st |-> "start", result |-> <<>>, error |-> NoError]
    /\ chunk = <<>>
    /\ calls = <<>>
    /\ PipelineIdle

\* The state after page p's call of chunk c has become `call`.
Step(c, p, call) ==
    IF ~Ended(call)
    THEN /\ calls' = [calls EXCEPT ![c][p] = call]
         /\ UNCHANGED <<chunk, fetch>>
    ELSE IF p = 1
    THEN LET ch1 == AfterFirstPage(chunk[c], call)
         IN  /\ chunk' = [chunk EXCEPT ![c] = ch1]
             /\ calls' = [calls EXCEPT ![c] = CallsAfterFirstPage(ch1, call)]
             /\ fetch' = FirstException(fetch, ch1)
    ELSE \* fetch_page ends: leaving "async with semaphore" releases the slot
         /\ calls' = [calls EXCEPT ![c][p] = call]
         /\ chunk' = [chunk EXCEPT ![c].semaphore = @ + 1,
                                   ![c].completed = Append(@, p)]
         /\ UNCHANGED fetch

\* search_qTest_for_test_cases up to the first suspension of every chunk.
StartFetch ==
    /\ fetch.st = "start"
    /\ IF test_case_pids = <<>>
       THEN /\ fetch' = [fetch EXCEPT !.st = "returned"]
            /\ UNCHANGED <<chunk, calls>>
       ELSE LET qs == search_queries(test_case_pids, CONFIG.case_search_chunk_size)
                cs == InitialCalls(CONFIG.request_retries)
                ch == [c \in DOMAIN qs |->
                        IF Ended(cs[1]) THEN AfterFirstPage(NewChunk(qs[c]), cs[1])
                        ELSE NewChunk(qs[c])]
            IN  /\ chunk' = ch
                /\ calls' = [c \in DOMAIN qs |-> cs]
                /\ fetch' = FirstException([fetch EXCEPT !.st = "running"], ch[1])
    /\ UNCHANGED <<CONFIG, test_case_pids, remote, served_page_size>>

\* The response to the attempt in flight of page p's call arrives. Only the
\* first page's body is read for "total", so a body without it is drawn for
\* the first page alone.
Respond(c, p, resp) ==
    /\ LoopRunning
    /\ calls[c][p].st = "inflight"
    /\ resp.kind = "no_total" => p = 1
    /\ LET carried == calls[c][p].reqPages[Len(calls[c][p].reqPages)]
           body == IF resp.kind = "no_total"
                   THEN SearchBodyNoTotal(chunk[c].query, carried)
                   ELSE SearchBody(chunk[c].query, carried)
       IN  Step(c, p, OnResponse(calls[c][p], resp, body,
                                 CONFIG.request_retries))
    /\ UNCHANGED <<CONFIG, test_case_pids, remote, served_page_size>>

\* A backoff sleep ends: the next iteration of the retry loop.
Wake(c, p) ==
    /\ LoopRunning
    /\ calls[c][p].st = "sleeping"
    /\ Step(c, p, NextAttempt(calls[c][p], chunk[c].page, CONFIG.request_retries))
    /\ UNCHANGED <<CONFIG, test_case_pids, remote, served_page_size>>

\* fetch_page(p) enters the semaphore (waiters are served in task order),
\* writes its page number into the shared params and starts its call.
Acquire(c, p) ==
    /\ LoopRunning
    /\ chunk[c].phase = "pages"
    /\ p >= 2
    /\ calls[c][p].st = "waiting"
    /\ \A q \in 2..(p - 1) : calls[c][q].st # "waiting"
    /\ CanAcquire(chunk[c].semaphore)
    /\ LET call == NextAttempt(calls[c][p], p, CONFIG.request_retries)
       IN  /\ calls' = [calls EXCEPT ![c][p] = call]
           /\ chunk' = [chunk EXCEPT ![c].semaphore = IF Ended(call) THEN @ ELSE @ - 1,
                                     ![c].page = p,
                                     ![c].completed = IF Ended(call)
                                                      THEN Append(@, p) ELSE @]
    /\ UNCHANGED <<CONFIG, test_case_pids, remote, served_page_size, fetch>>

\* gather(*tasks, return_exceptions=True) has every result: the loop over them.
FinishChunk(c) ==
    /\ LoopRunning
    /\ chunk[c].phase = "pages"
    /\ \A p \in PageTasks(chunk[c].total_pages) : Ended(calls[c][p])
    /\ LET tp == chunk[c].total_pages
           ch1 == IF GatherFailed(calls[c], tp) # {}
                  THEN Raise(chunk[c], calls[c][FirstFailed(calls[c], tp)].error)
                  ELSE [chunk[c] EXCEPT !.phase = "returned",
                                        !.results = GatherResults(calls[c], tp)]
       IN  /\ chunk' = [chunk EXCEPT ![c] = ch1]
           /\ fetch' = FirstException(fetch, ch1)
    /\ UNCHANGED <<CONFIG, test_case_pids, remote, served_page_size, calls>>

\* Line 151: extract_test_cases is resumed with the exception of its gather
\* and raises it. The chunk tasks that are left are not cancelled by that:
\* the event loop keeps running them.
RaiseExtract ==
    /\ fetch.st = "running"
    /\ fetch.error # NoError
    /\ fetch' = [fetch EXCEPT !.st = "raising"]
    /\ UNCHANGED <<CONFIG, test_case_pids, remote, served_page_size, chunk, calls>>

\* A call that is cancelled: CancelledError is thrown into it where it is
\* suspended (its request in flight, its backoff sleep, the acquisition of
\* the semaphore); a call that has ended is left as it is.
CancelCall(call) ==
    IF Ended(call) THEN call ELSE [call EXCEPT !.st = "cancelled"]

\* A chunk task that is cancelled: its page tasks leave "async with
\* semaphore", which releases their slots; a chunk that has ended is left
\* as it is.
CancelChunk(ch) ==
    IF ch.phase = "pages"
    THEN [ch EXCEPT !.phase = "cancelled",
                    !.semaphore = CONFIG.max_concurrent_requests]
    ELSE IF ch.phase = "first" THEN [ch EXCEPT !.phase = "cancelled"]
    ELSE ch

\* Line 168: asyncio.run finds its main task ended in the exception, cancels
\* the chunk tasks and page tasks that are left, runs them to their end and
\* raises the exception to the caller.
RaiseFetch ==
    /\ fetch.st = "raising"
    /\ fetch' = [fetch EXCEPT !.st = "raised"]
    /\ chunk' = [c \in DOMAIN chunk |-> CancelChunk(chunk[c])]
    /\ calls' = [c \in DOMAIN calls |->
                    [p \in DOMAIN calls[c] |-> CancelCall(calls[c][p])]]
    /\ UNCHANGED <<CONFIG, test_case_pids, remote, served_page_size>>

\* gather(*tasks) of extract_test_cases has every chunk: empty results are
\* dropped and the others concatenated in query order.
ReturnFetch ==
    /\ fetch.st = "running"
    /\ \A c \in DOMAIN chunk : chunk[c].phase = "returned"
    /\ fetch' = [fetch EXCEPT !.st = "returned",
                              !.result = Flatten([c \in DOMAIN chunk |-> chunk[c].results])]
    /\ UNCHANGED <<CONFIG, test_case_pids, remote, served_page_size, chunk, calls>>

Next ==
    \/ StartFetch /\ UNCHANGED pvars
    \/ \E c \in DOMAIN chunk : \E p \in DOMAIN calls[c] : \E resp \in Responses :
          Respond(c, p, resp) /\ UNCHANGED pvars
    \/ \E c \in DOMAIN chunk : \E p \in DOMAIN calls[c] :
          Wake(c, p) /\ UNCHANGED pvars
    \/ \E c \in DOMAIN chunk : \E p \in DOMAIN calls[c] :
          Acquire(c, p) /\ UNCHANGED pvars
    \/ \E c \in DOMAIN chunk : FinishChunk(c) /\ UNCHANGED pvars
    \/ RaiseExtract /\ UNCHANGED pvars
    \/ RaiseFetch /\ UNCHANGED pvars
    \/ ReturnFetch /\ UNCHANGED pvars

Spec == Init /\ [][Next]_vars

(***************************************************************************)
(* Observations used by the properties.                                    *)
(***************************************************************************)
\* The page tasks (pages 2..total_pages) of chunk c whose request is in flight.
InFlightPages(c) == {p \in DOMAIN calls[c] : p >= 2 /\ calls[c][p].st = "inflight"}

\* The page tasks of chunk c that are inside "async with semaphore".
SlotHolders(c) ==
    {p \in DOMAIN calls[c] : p >= 2 /\ calls[c][p].st \in {"inflight", "sleeping"}}

RECURSIVE TotalInFlight(_)
TotalInFlight(n) ==
    IF n = 0 THEN 0 ELSE Cardinality(InFlightPages(n)) + TotalInFlight(n - 1)

\* Every call of the model, as <<chunk, page>>.
AllCalls == UNION {{<<c, p>> : p \in DOMAIN calls[c]} : c \in DOMAIN chunk}

CallOf(cp) == calls[cp[1]][cp[2]]

Occurrences(seq, x) == Cardinality({i \in DOMAIN seq : seq[i] = x})

\* The page numbers carried by the requests chunk c has issued.
RequestedPages(c) ==
    UNION {{calls[c][p].reqPages[i] : i \in DOMAIN calls[c][p].reqPages} :
            p \in DOMAIN calls[c]}

(***************************************************************************)
(* Properties.                                                             *)
(***************************************************************************)
\* C1: within one chunk, the page requests (pages 2..totalPages) in flight
\* never exceed max_concurrent_requests; a page task past the cap has issued
\* nothing: the tasks inside the semaphore are at most the cap, and the
\* free slots are exactly the cap minus those tasks.
C1_PageRequestsWithinLimit ==
    \A c \in DOMAIN chunk :
        /\ Cardinality(InFlightPages(c)) <= CONFIG.max_concurrent_requests
        /\ chunk[c].phase = "pages" =>
              /\ Cardinality(SlotHolders(c)) <= CONFIG.max_concurrent_requests
              /\ chunk[c].semaphore =
                    CONFIG.max_concurrent_requests - Cardinality(SlotHolders(c))
              /\ \A p \in PageTasks(chunk[c].total_pages) :
                    calls[c][p].st = "waiting" => calls[c][p].reqPages = <<>>

\* C1 witness: the cap is reached (two requests in flight) and a third page
\* task is held back with no request issued.
C1_Witness ==
    \E c \in DOMAIN chunk :
        /\ CONFIG.max_concurrent_requests = 2
        /\ Cardinality(InFlightPages(c)) = 2
        /\ \E p \in DOMAIN calls[c] : calls[c][p].st = "waiting"

\* C2 (as claimed): the page requests in flight, summed over the chunks of
\* one fetch, never exceed max_concurrent_requests.
C2_SharedLimiterAcrossChunks ==
    TotalInFlight(Len(chunk)) <= CONFIG.max_concurrent_requests

\* C3 (as claimed): a fetch that returns for a non-empty duplicate-free list
\* holds exactly one record for each identifier present remotely and none
\* for an absent one (the remote service serving pages of the requested size).
C3_ExactlyOneRecordPerPresentPid ==
    (/\ fetch.st = "returned"
     /\ test_case_pids # <<>>
     /\ served_page_size = CONFIG.request_page_size)
    => \A pid \in AllPids :
          Occurrences(fetch.result, pid) =
              IF pid \in remote /\ Occurrences(test_case_pids, pid) = 1 THEN 1 ELSE 0

\* C4: a search request answered 200 on its k-th attempt (the k-1 earlier
\* answers being 5xx) has made exactly k attempts, k <= request_retries, and
\* exactly k-1 backoff delays, the delay after attempt a being 2^a.
C4_BackoffDelaysOnSuccess ==
    \A cp \in AllCalls :
        LET call == CallOf(cp)
        IN  (call.st = "returned" /\ ~call.data.none) =>
                /\ IsSuccess(call.status)
                /\ call.attempt <= CONFIG.request_retries
                /\ Len(call.reqPages) = call.attempt
                /\ call.delays = [a \in 1..(call.attempt - 1) |-> 2 ^ a]

\* C4 witness: 503, 503, 200 with request_retries = 3: delays 2 then 4.
C4_Witness ==
    \E cp \in AllCalls :
        /\ CONFIG.request_retries = 3
        /\ CallOf(cp).st = "returned"
        /\ CallOf(cp).status = 200
        /\ CallOf(cp).attempt = 3
        /\ CallOf(cp).delays = <<2, 4>>

\* C5: a search request all of whose attempts are answered 5xx makes exactly
\* request_retries attempts and then raises the exhaustion error with the
\* last status; it sleeps request_retries - 1 times, never after the last
\* attempt, and makes no further attempt.
C5_ExhaustionAfterMaxAttempts ==
    \A cp \in AllCalls :
        LET call == CallOf(cp)
        IN  /\ call.st = "sleeping" => call.attempt < CONFIG.request_retries
            /\ (Ended(call) /\ call.status >= 500 /\ call.status < 600) =>
                  /\ call.st = "raised"
                  /\ call.error = [kind |-> "exhausted", status |-> call.status]
                  /\ call.attempt = CONFIG.request_retries
                  /\ Len(call.reqPages) = CONFIG.request_retries
                  /\ Len(call.delays) = CONFIG.request_retries - 1
            /\ call.error.kind = "exhausted" =>
                  call.attempt = CONFIG.request_retries

\* C5 witness: three attempts, all answered 5xx, with request_retries = 3.
C5_Witness ==
    \E cp \in AllCalls :
        /\ CONFIG.request_retries = 3
        /\ CallOf(cp).error.kind = "exhausted"
        /\ CallOf(cp).attempt = 3
        /\ Len(CallOf(cp).delays) = 2

\* C6: a search request answered with a 4xx status raises at once: that
\* attempt is its last, no backoff delay follows it, however many attempts
\* remain.
C6_ClientErrorFailsImmediately ==
    \A cp \in AllCalls :
        LET call == CallOf(cp)
        IN  (call.status >= 400 /\ call.status < 500) =>
                /\ call.st = "raised"
                /\ call.error = [kind |-> "rejected", status |-> call.status]
                /\ Len(call.reqPages) = call.attempt
                /\ Len(call.delays) = call.attempt - 1

\* C6 witness: a 404 on the first of three attempts ends the call.
C6_Witness ==
    \E cp \in AllCalls :
        /\ CONFIG.request_retries = 3
        /\ CallOf(cp).status = 404
        /\ CallOf(cp).attempt = 1
        /\ CallOf(cp).st = "raised"

\* C7 (as claimed): a search request that ends in a transport exception or a
\* timeout is retried like a 5xx: it fails only once request_retries attempts
\* have been made.
C7_TransportErrorIsRetried ==
    \A cp \in AllCalls :
        CallOf(cp).error.kind = "transport" =>
            CallOf(cp).attempt = CONFIG.request_retries

\* C8: in every chunk a request carrying a page number of 2 or more, or any
\* request of a page task, is issued only after the first-page call has
\* returned a 200 response; a chunk whose first page failed requests no
\* later page.
C8_FirstPageBeforeLaterPages ==
    \A c \in DOMAIN chunk :
        (\/ \E n \in RequestedPages(c) : n >= 2
         \/ \E p \in DOMAIN calls[c] : p >= 2 /\ calls[c][p].attempt >= 1)
        => /\ calls[c][1].st = "returned"
           /\ IsSuccess(calls[c][1].status)
           /\ ~calls[c][1].data.none

\* C8 witness: a request for page 2 is in flight.
C8_Witness ==
    \E c \in DOMAIN chunk :
        /\ 2 \in DOMAIN calls[c]
        /\ calls[c][2].st = "inflight"
        /\ calls[c][2].reqPages = <<2>>

\* C9 (as claimed): the number of pages of a chunk is ceil(total / pageSize)
\* with total and pageSize both read from the first-page response.
C9_PagesFromResponsePageSize ==
    \A c \in DOMAIN chunk :
        chunk[c].phase \in {"pages", "returned"} =>
            LET d == calls[c][1].data
            IN  /\ chunk[c].total_pages * d.page_size >= Total(d)
                /\ (chunk[c].total_pages - 1) * d.page_size < Total(d)

\* C10: a chunk one of whose pages has exhausted its retries never returns:
\* neither the chunk nor the fetch hands any record of it to the caller.
C10_ExhaustedPageFailsChunk ==
    \A c \in DOMAIN chunk :
        (\E p \in DOMAIN calls[c] : calls[c][p].error.kind = "exhausted") =>
            /\ chunk[c].phase # "returned"
            /\ fetch.st # "returned"
            /\ fetch.result = <<>>

\* C10 witness: page 1 and page 2 delivered records, page 3 exhausted its
\* retries, and the chunk raised that error.
C10_Witness ==
    \E c \in DOMAIN chunk :
        /\ chunk[c].phase = "raised"
        /\ chunk[c].error.kind = "exhausted"
        /\ chunk[c].results # <<>>
        /\ 3 \in DOMAIN calls[c]
        /\ calls[c][2].st = "returned" /\ calls[c][2].data.items # <<>>
        /\ calls[c][3].error.kind = "exhausted"
        /\ fetch.st = "raised"

\* C11 (as claimed): a chunk whose first-page call returned a 200 body without
\* "total" has failed; it is never a returned chunk of zero or one page.
C11_MissingTotalFailsChunk ==
    \A c \in DOMAIN chunk :
        (/\ calls[c][1].st = "returned"
         /\ ~calls[c][1].data.none
         /\ "total" \notin DOMAIN calls[c][1].data) =>
            chunk[c].phase = "raised"

\* The failed page tasks of chunk c, in the order in which they failed.
FailedInTime(c) ==
    SelectSeq(chunk[c].completed, LAMBDA p : calls[c][p].st = "raised")

\* Chunk c has raised the exception of one of its page tasks.
RaisedByPageTask(c) == chunk[c].phase = "raised" /\ chunk[c].total_pages > 1

\* C27 (as claimed): when page tasks of a chunk fail, the error propagated
\* to the caller of the chunk fetch is the one raised first in time.
C27_FirstErrorInTimePropagated ==
    \A c \in DOMAIN chunk :
        RaisedByPageTask(c) =>
            chunk[c].error = calls[c][FailedInTime(c)[1]].error

\* C27 (amended): when page tasks of a chunk fail, the error propagated is
\* that of the lowest-numbered failed page, whatever the order in which the
\* tasks failed.
C27_LowestFailedPagePropagated ==
    \A c \in DOMAIN chunk :
        RaisedByPageTask(c) =>
            \E p \in PageTasks(chunk[c].total_pages) :
                /\ calls[c][p].st = "raised"
                /\ \A q \in 2..(p - 1) : calls[c][q].st # "raised"
                /\ chunk[c].error = calls[c][p].error

\* C27 witness: two page tasks failed with different errors, the higher
\* page first, and the chunk raised the lower page's error.
C27_Witness ==
    \E c \in DOMAIN chunk :
        /\ RaisedByPageTask(c)
        /\ Len(FailedInTime(c)) = 2
        /\ FailedInTime(c)[1] > FailedInTime(c)[2]
        /\ calls[c][FailedInTime(c)[1]].error # calls[c][FailedInTime(c)[2]].error
        /\ chunk[c].error = calls[c][FailedInTime(c)[2]].error

\* A chunk that returned the records of more than one page.
ReturnedPages(c) == chunk[c].phase = "returned" /\ chunk[c].total_pages > 1

\* C28 (as claimed): the records of page 1 come first and those of the pages
\* 2..totalPages follow in the order in which their page tasks completed.
C28_RecordsInCompletionOrder ==
    \A c \in DOMAIN chunk :
        ReturnedPages(c) =>
            chunk[c].results =
                PageResult(calls[c][1])
                \o Flatten([i \in DOMAIN chunk[c].completed |->
                               PageResult(calls[c][chunk[c].completed[i]])])

\* C28 (amended): the records of page 1 come first and those of the pages
\* 2..totalPages follow in page order, whatever the order in which the page
\* tasks completed, so the record order does not depend on the completion
\* order.
C28_RecordsInPageOrder ==
    \A c \in DOMAIN chunk :
        ReturnedPages(c) =>
            chunk[c].results =
                Flatten([p \in 1..chunk[c].total_pages |-> PageResult(calls[c][p])])

\* C28 witness: page 3 completed before page 2 and the result is not the
\* concatenation in completion order.
C28_Witness ==
    \E c \in DOMAIN chunk :
        /\ ReturnedPages(c)
        /\ chunk[c].completed = <<3, 2>>
        /\ chunk[c].results # PageResult(calls[c][1]) \o PageResult(calls[c][3])
                                \o PageResult(calls[c][2])
        /\ chunk[c].results = PageResult(calls[c][1]) \o PageResult(calls[c][2])
                                \o PageResult(calls[c][3])

\* The search has been entered: its queries are built.
QueriesBuilt == fetch.st # "start"

\* ceil(n / c): the least k with k * c >= n.
CeilDiv(n, c) == CHOOSE k \in 0..n : k * c >= n /\ \A j \in 0..(k - 1) : j * c < n

\* C29: for n identifiers and chunk size c exactly ceil(n / c) queries are
\* built, every query holds between 1 and c identifiers, the queries taken in
\* order are the identifier list (every identifier in exactly one query, in
\* list order); for the empty list no request is issued and the result is
\* empty.
C29_QueriesPartitionIdentifiers ==
    QueriesBuilt =>
        /\ Len(chunk) = CeilDiv(Len(test_case_pids), CONFIG.case_search_chunk_size)
        /\ \A c \in DOMAIN chunk :
              /\ Len(chunk[c].query) >= 1
              /\ Len(chunk[c].query) <= CONFIG.case_search_chunk_size
        /\ Flatten([c \in DOMAIN chunk |-> chunk[c].query]) = test_case_pids
        /\ test_case_pids = <<>> =>
              /\ calls = <<>>
              /\ fetch = [st |-> "returned", result |-> <<>>, error |-> NoError]

\* C29 witness: three identifiers with chunk size 2 give a full query and a
\* query with the one identifier left.
C29_Witness ==
    /\ QueriesBuilt
    /\ Len(test_case_pids) = 3
    /\ CONFIG.case_search_chunk_size = 2
    /\ Len(chunk) = 2
    /\ chunk[1].query = SubSeq(test_case_pids, 1, 2)
    /\ chunk[2].query = <<test_case_pids[3]>>

\* C39: for every accepted value of request_retries (0 included) a request
\* is attempted at least once: a call that has ended, and a chunk that has
\* failed, has made at least one attempt.
C39_EveryCallAttemptedOnce ==
    /\ \A cp \in AllCalls : Ended(CallOf(cp)) => CallOf(cp).attempt >= 1
    /\ \A c \in DOMAIN chunk :
          chunk[c].phase = "raised" =>
              \E p \in DOMAIN calls[c] : calls[c][p].reqPages # <<>>

\* C37: under every interleaving, every request of the task for page p, the
\* first attempt and every retry, carries page number p; so when a chunk
\* has returned, every page 1..totalPages was answered 200 exactly once.
C37_RequestsCarryOwnPage ==
    /\ \A cp \in AllCalls :
          \A i \in DOMAIN CallOf(cp).reqPages : CallOf(cp).reqPages[i] = cp[2]
    /\ \A c \in DOMAIN chunk :
          chunk[c].phase = "returned" =>
              \A q \in 1..chunk[c].total_pages :
                  Cardinality({p \in DOMAIN calls[c] :
                      /\ calls[c][p].st = "returned"
                      /\ calls[c][p].reqPages[Len(calls[c][p].reqPages)] = q}) = 1

\* C36 (as claimed): after one page task of a chunk has failed no other page
\* task of that chunk is cancelled: every page task 2..totalPages runs to
\* its own end, the chunk returns or raises only after all of them have
\* ended, and the records of the tasks that succeeded are not handed to the
\* caller.
C36_NoPageTaskCancelledAfterFailure ==
    \A c \in DOMAIN chunk :
        /\ (RaisedByPageTask(c) \/ ReturnedPages(c)) =>
              /\ \A p \in PageTasks(chunk[c].total_pages) : Ended(calls[c][p])
              /\ {chunk[c].completed[i] : i \in DOMAIN chunk[c].completed}
                     = PageTasks(chunk[c].total_pages)
        /\ RaisedByPageTask(c) => fetch.st # "returned" /\ fetch.result = <<>>
        /\ (\E q \in PageTasks(chunk[c].total_pages) : calls[c][q].st = "raised") =>
              \A p \in PageTasks(chunk[c].total_pages) :
                  calls[c][p].st # "cancelled"

\* The search under the assumption that every HTTP call returns, every
\* sleep ends and the event loop runs every task that can run.
SpecFair == Init /\ [][Next]_vars /\ WF_vars(Next)

\* The HTTP attempts chunk c has made.
Attempts(c) == Flatten([p \in DOMAIN calls[c] |-> calls[c][p].reqPages])

\* The search has ended: it returned or raised.
FetchEnded == fetch.st \in {"returned", "raised"}

\* Slots are held exactly by the tasks that are between their first attempt
\* and their end, retries and backoff sleeps included.
SlotsHeldUntilEnd ==
    \A c \in DOMAIN chunk :
        chunk[c].phase = "pages" =>
            chunk[c].semaphore + Cardinality(SlotHolders(c))
                = CONFIG.max_concurrent_requests

\* C38 (as claimed): the search always terminates; every page task acquires
\* a slot (none ends without having made an attempt) and holds it from its
\* first attempt to its end; a chunk that requested pages 1..totalPages
\* makes at most totalPages * request_retries attempts.
C38_EveryPageTaskAcquiresSlot ==
    /\ <>FetchEnded
    /\ [](/\ SlotsHeldUntilEnd
          /\ \A c \in DOMAIN chunk :
                /\ \A p \in PageTasks(chunk[c].total_pages) :
                      (FetchEnded \/ chunk[c].phase # "pages") =>
                          calls[c][p].attempt >= 1
                /\ chunk[c].total_pages >= 1 =>
                      Len(Attempts(c))
                          <= chunk[c].total_pages * CONFIG.request_retries)

(***************************************************************************)
(* The pipeline after the fetch: version resolution, step flattening and   *)
(* reconciliation, status annotation, suite and run creation. The helpers  *)
(* are blocking (requests.get / requests.post): a step of the model is     *)
(* what the script does between two requests.                              *)
(*                                                                         *)
(* Strings the code parses are sequences of characters, so that endswith   *)
(* and the regular expression of parse_version are computed, not assumed.  *)
(***************************************************************************)
Digits == {"0", "1", "2", "3", "4", "5", "6", "7", "8", "9"}

DigitValue(ch) ==
    CASE ch = "0" -> 0 [] ch = "1" -> 1 [] ch = "2" -> 2 [] ch = "3" -> 3
      [] ch = "4" -> 4 [] ch = "5" -> 5 [] ch = "6" -> 6 [] ch = "7" -> 7
      [] ch = "8" -> 8 [] ch = "9" -> 9

\* str.endswith
endswith(str, suffix) ==
    /\ Len(str) >= Len(suffix)
    /\ SubSeq(str, Len(str) - Len(suffix) + 1, Len(str)) = suffix

DotZero == <<".", "0">>

\* Mutant: a version counts as approved as soon as it ends in "0".
is_approved_last_digit(vstr) == endswith(vstr, <<"0">>)

\* str(v).endswith(".0")
is_approved(vstr) == endswith(vstr, DotZero)

\* The length of the longest prefix of digits: what (\d+) takes.
RECURSIVE LeadingDigits(_)
LeadingDigits(str) ==
    IF str # <<>> /\ Head(str) \in Digits
    THEN 1 + LeadingDigits(Tail(str))
    ELSE 0

\* int() of a string of digits.
RECURSIVE IntOf(_)
IntOf(ds) ==
    IF ds = <<>> THEN 0
    ELSE 10 * IntOf(SubSeq(ds, 1, Len(ds) - 1)) + DigitValue(ds[Len(ds)])

\* re.match(r"(\d+)\.0", vstr): group 1 as an integer, -1 without a match.
parse_version(vstr) ==
    LET k == LeadingDigits(vstr)
    IN  IF k >= 1 /\ Len(vstr) >= k + 2 /\ vstr[k + 1] = "." /\ vstr[k + 2] = "0"
        THEN IntOf(SubSeq(vstr, 1, k))
        ELSE -1

\* Mutant: the approved versions are sorted in ascending order.
RECURSIVE sort_ascending(_)
sort_ascending(versions) ==
    IF versions = <<>> THEN <<>>
    ELSE LET x == Head(versions)
             rest == sort_ascending(Tail(versions))
             lower == SelectSeq(rest, LAMBDA v : parse_version(v.version)
                                                    < parse_version(x.version))
             upper == SelectSeq(rest, LAMBDA v : parse_version(v.version)
                                                    >= parse_version(x.version))
         IN  lower \o <<x>> \o upper

\* Mutant: descending, but of the entries of equal key the later comes first.
RECURSIVE sort_reverse_unstable(_)
sort_reverse_unstable(versions) ==
    IF versions = <<>> THEN <<>>
    ELSE LET x == Head(versions)
             rest == sort_reverse_unstable(Tail(versions))
             upper == SelectSeq(rest, LAMBDA v : parse_version(v.version)
                                                    >= parse_version(x.version))
             lower == SelectSeq(rest, LAMBDA v : parse_version(v.version)
                                                    < parse_version(x.version))
         IN  upper \o <<x>> \o lower

\* list.sort(key=parse_version, reverse=True): descending and stable, the
\* entries of equal key keep the order the service returned them in.
RECURSIVE sort_reverse(_)
sort_reverse(versions) ==
    IF versions = <<>> THEN <<>>
    ELSE LET x == Head(versions)
             rest == sort_reverse(Tail(versions))
             upper == SelectSeq(rest, LAMBDA v : parse_version(v.version)
                                                    > parse_version(x.version))
             lower == SelectSeq(rest, LAMBDA v : parse_version(v.version)
                                                    <= parse_version(x.version))
         IN  upper \o <<x>> \o lower

(***************************************************************************)
(* Inputs of the pipeline: the targets of the workbook, the case records   *)
(* the search can return for them, the version histories and step lists    *)
(* the service can answer with.                                            *)
(***************************************************************************)
\* The value pd.read_excel(dtype=str) leaves in a blank cell: the float NaN,
\* which is truthy and which json.dumps(allow_nan=False) refuses.
NaN == "NaN"

Target(pid, run_name, result, status) ==
    [test_case_pid |-> pid, test_run_name |-> run_name,
     test_result |-> result, status |-> status]

\* The workbooks tried. "status" is the Upload Status column: the sequence of
\* its lines, <<>> being the empty string. The run-name cell of the first
\* target of the fourth workbook is blank.
TargetTables ==
    { <<>>,
      << Target("TC-1", "Run 1", "Passed", <<>>) >>,
      << Target("TC-1", "Run 1", "Passed", <<>>),
         Target("TC-2", "Run 2", "Failed", <<>>) >>,
      << Target("TC-1", NaN, "Passed", <<>>),
         Target("TC-2", "Run 2", "N/A", <<"Result could not be determined">>) >>,
      << Target("TC-1", "Run 1", "Passed", <<>>),
         Target("TC-1", "Run 1b", "Failed", <<>>) >> }

\* .unique(): the first occurrence of every value, in order.
RECURSIVE unique(_)
unique(seq) ==
    IF seq = <<>> THEN <<>>
    ELSE LET front == unique(SubSeq(seq, 1, Len(seq) - 1))
             x == seq[Len(seq)]
         IN  IF \E i \in DOMAIN front : front[i] = x THEN front
             ELSE Append(front, x)

\* The identifiers of the targets whose Upload Status is empty.
eligible_pids(targets) ==
    LET eligible == SelectSeq(targets, LAMBDA t : t.status = <<>>)
    IN  unique([i \in DOMAIN eligible |-> eligible[i].test_case_pid])

CaseId(pid) == IF pid = "TC-1" THEN 10 ELSE 20

\* The test_steps field of a fetched record is a string (the search result
\* is cast with astype(str)): literal says whether ast.literal_eval accepts
\* it, value is what it evaluates to.
StepList(ids) ==
    [type |-> "list", items |-> [i \in DOMAIN ids |-> [id |-> ids[i], order |-> i]]]
NoneValue == [type |-> "NoneType", items |-> <<>>]
StepFields ==
    { [type |-> "str", literal |-> TRUE, value |-> StepList(<<101>>)],
      [type |-> "str", literal |-> TRUE, value |-> StepList(<<101, 102>>)],
      [type |-> "str", literal |-> TRUE, value |-> NoneValue],
      [type |-> "str", literal |-> FALSE, value |-> NoneValue] }

\* The fields tried for one identifier: all of them for TC-1, a list of one
\* step for the others.
StepFieldsOf(pid) ==
    IF pid = "TC-1" THEN StepFields
    ELSE { [type |-> "str", literal |-> TRUE, value |-> StepList(<<101>>)] }

VersionStrings == { <<"1", ".", "0">>, <<"1", ".", "3">> }

\* The records the search can return for one identifier.
CaseRows(pid) ==
    { [pid |-> pid, id |-> CaseId(pid), version |-> v,
       test_case_version_id |-> CaseId(pid) + 1, test_steps |-> f] :
          v \in VersionStrings, f \in StepFieldsOf(pid) }

\* The case tables the search can return: for every identifier asked for,
\* in order, one record or none.
RECURSIVE CaseTables(_)
CaseTables(pids) ==
    IF pids = <<>> THEN {<<>>}
    ELSE LET rest == CaseTables(Tail(pids))
         IN  rest \cup { <<r>> \o t : r \in CaseRows(Head(pids)), t \in rest }

Version(vstr, id) ==
    [id |-> id, version |-> vstr, test_case_version_id |-> id + 1]

\* The version histories the service can return for a case: none, one
\* without an approved version ("1.10" ends in "0", not in ".0"), and some
\* with several approved versions.
Histories(case_id) ==
    LET V(vstr, n) == Version(vstr, 100 * case_id + n)
    IN  { <<>>,
          << V(<<"1", ".", "3">>, 13), V(<<"1", ".", "1", "0">>, 11) >>,
          << V(<<"2", ".", "0">>, 20), V(<<"1", ".", "0">>, 10) >>,
          << V(<<"2", ".", "0">>, 20), V(<<"1", "0", ".", "0">>, 30),
             V(<<"1", ".", "3">>, 13) >>,
          << V(<<"2", ".", "0">>, 20), V(<<"2", ".", "0">>, 21) >> }

\* What one attempt of a blocking lookup can end in: 200 with one of the
\* bodies, another status, or an exception of the transport (`nobody` stands
\* for the body the code does not read then).
BlockingResponses(bodies, nobody) ==
    { [kind |-> "status", status |-> 200, body |-> b] : b \in bodies }
    \cup { [kind |-> "status", status |-> st, body |-> nobody] : st \in Statuses \ {200} }
    \cup { [kind |-> "exception", status |-> 0, body |-> nobody] }

(***************************************************************************)
(* get_latest_approved_versions.                                           *)
(***************************************************************************)
\* Mutant: every case is looked up, whatever its version.
needs_update_all(df) == df

\* The rows whose version does not end in ".0".
needs_update(df) == SelectSeq(df, LAMBDA row : ~endswith(row.version, DotZero))

approved_versions(versions) ==
    SelectSeq(versions, LAMBDA v : is_approved(v.version))

latest(versions) == Head(sort_reverse(approved_versions(versions)))

\* Mutant: without an approved version the row is appended as it is.
new_rows_always(row, versions) ==
    IF approved_versions(versions) = <<>> THEN <<row>>
    ELSE << [row EXCEPT !.id = latest(versions).id,
                        !.version = latest(versions).version,
                        !.test_case_version_id =
                            latest(versions).test_case_version_id] >>

\* What the body of the loop appends to updated_rows for one row.
new_rows(row, versions) ==
    IF approved_versions(versions) = <<>> THEN <<>>
    ELSE << [row EXCEPT !.id = latest(versions).id,
                        !.version = latest(versions).version,
                        !.test_case_version_id =
                            latest(versions).test_case_version_id] >>

\* updated_df.loc[idx, ...] = ... for the first row of the table with the pid.
RECURSIVE apply_updates(_, _)
apply_updates(df, updated_rows) ==
    IF updated_rows = <<>> THEN df
    ELSE LET row == Head(updated_rows)
             match == {i \in DOMAIN df : df[i].pid = row.pid}
             idx == CHOOSE i \in match : \A j \in match : i <= j
             df1 == IF match = {} THEN df
                    ELSE [df EXCEPT ![idx].id = row.id,
                                    ![idx].version = row.version,
                                    ![idx].test_case_version_id =
                                        row.test_case_version_id]
         IN  apply_updates(df1, Tail(updated_rows))

updated_pids(df, updated_rows) ==
    {updated_rows[i].pid : i \in {j \in DOMAIN updated_rows :
                                     \E k \in DOMAIN df : df[k].pid = updated_rows[j].pid}}

\* The changed subset: the rows of the corrected table whose pid was updated.
changed_subset(df, updated_rows) ==
    SelectSeq(apply_updates(df, updated_rows),
              LAMBDA row : row.pid \in updated_pids(df, updated_rows))

\* Mutant: the emptiness check is gone.
is_empty_never(df) == FALSE

\* test_case_df.empty
is_empty(df) == df = <<>>

\* What a lookup returned, and how: "200" (a response of status 200),
\* "exhausted" (every attempt failed) or "unsent" (no attempt at all).
Return(endpoint, key, how, result) ==
    [endpoint |-> endpoint, key |-> key, how |-> how, result |-> result]

Request(endpoint, key) ==
    [endpoint |-> endpoint, key |-> key, attempt |-> 1, last |-> 0]

\* The for loop over needs_update from row i on, updated_rows being `rows`:
\* it runs to the next version lookup that sends a request, or to its end
\* and through lines 476-491. With request_retries = 0 a lookup sends
\* nothing and returns [].
ResolveLoop(i, rows, rets) ==
    LET needs == needs_update(fetched_df)
    IN  /\ IF i <= Len(needs) /\ CONFIG.request_retries > 0
           THEN /\ pc' = "resolving"
                /\ http' = Request("versions", needs[i].id)
                /\ requests' = requests \cup {<<"versions", needs[i].id>>}
                /\ loop' = [i |-> i, rows |-> rows]
                /\ returns' = rets
                /\ UNCHANGED <<test_case_df, updated_cases_df>>
           ELSE /\ pc' = "unpack"
                /\ http' = NoRequest
                /\ loop' = NoLoop
                /\ returns' = rets \o [k \in 1..(Len(needs) - i + 1) |->
                                          Return("versions", needs[i + k - 1].id,
                                                 "unsent", <<>>)]
                /\ test_case_df' = apply_updates(fetched_df, rows)
                /\ updated_cases_df' = changed_subset(fetched_df, rows)
                /\ UNCHANGED requests
        /\ UNCHANGED <<auto_result_df, fetched_df, unpacked_step_df,
                       test_case_step_df, suite_id, test_runs, error>>

\* An uncaught exception ends the script.
Abort(exception) ==
    /\ pc' = "aborted"
    /\ error' = exception
    /\ http' = NoRequest
    /\ loop' = NoLoop
    /\ UNCHANGED <<auto_result_df, fetched_df, test_case_df, updated_cases_df,
                   unpacked_step_df, test_case_step_df, requests, returns,
                   suite_id, test_runs>>

\* Line 398: the search returns a case table, or raises (it always raises
\* when identifiers are asked for and request_retries is 0).
Search(df) ==
    /\ pc = "search"
    /\ test_case_pids = <<>> \/ CONFIG.request_retries > 0
    /\ pc' = "resolve"
    /\ fetched_df' = df
    /\ UNCHANGED <<auto_result_df, test_case_df, updated_cases_df,
                   unpacked_step_df, test_case_step_df, loop, http, requests,
                   returns, suite_id, test_runs, error>>
    /\ UNCHANGED fvars

\* What the search raises: RequestFailureException (a rejected request,
\* exhausted retries, no data), or the error of the HTTP client that
\* fetch_with_retries does not catch (a connection error, a timeout).
SearchErrors == {"RequestFailureException", "ClientConnectionError", "TimeoutError"}

\* Line 398: the search raises; with request_retries 0 no request is made
\* and only "no data returned" can be raised.
SearchRaises(exception) ==
    /\ pc = "search"
    /\ test_case_pids # <<>>
    /\ exception # "RequestFailureException" => CONFIG.request_retries > 0
    /\ Abort(exception)
    /\ UNCHANGED fvars

\* Line 400: get_latest_approved_versions up to its first request.
Resolve ==
    /\ pc = "resolve"
    /\ IF is_empty(fetched_df)
       THEN Abort("ValueError")
       ELSE ResolveLoop(1, <<>>, returns)
    /\ UNCHANGED fvars

\* An attempt of get_case_versions ends: on 200 the history is returned and
\* the loop goes on; otherwise the next attempt is sent at once, and after
\* the last one the lookup returns [].
VersionsRespond(resp) ==
    /\ pc = "resolving"
    /\ http.endpoint = "versions"
    /\ LET row == needs_update(fetched_df)[loop.i]
           done(how, versions) ==
               ResolveLoop(loop.i + 1, loop.rows \o new_rows(row, versions),
                           Append(returns, Return("versions", http.key, how, versions)))
       IN  IF resp.kind = "status" /\ resp.status = 200
           THEN done("200", resp.body)
           ELSE IF http.attempt < CONFIG.request_retries
           THEN /\ http' = [http EXCEPT !.attempt = @ + 1,
                                        !.last = IF resp.kind = "status"
                                                 THEN resp.status ELSE @]
                /\ UNCHANGED <<pc, auto_result_df, fetched_df, test_case_df,
                               updated_cases_df, unpacked_step_df,
                               test_case_step_df, loop, requests, returns,
                               suite_id, test_runs, error>>
           ELSE done("exhausted", <<>>)
    /\ UNCHANGED fvars

(***************************************************************************)
(* unpack_case_steps and update_case_steps. A step table is a DataFrame:   *)
(* its columns and its rows (pandas builds a frame without any column      *)
(* from an empty list of records).                                         *)
(***************************************************************************)
StepColumns == {"pid", "test_case_id", "test_case_version_id", "step_id", "step_order"}

\* pd.DataFrame(records)
DataFrame(records) ==
    [columns |-> IF records = <<>> THEN {} ELSE StepColumns, rows |-> records]

\* pd.concat([a, b], ignore_index=True)
concat(a, b) == [columns |-> a.columns \cup b.columns, rows |-> a.rows \o b.rows]

step_record(pid, case_id, version_id, step) ==
    [pid |-> pid, test_case_id |-> case_id, test_case_version_id |-> version_id,
     step_id |-> step.id, step_order |-> step.order]

step_records(pid, case_id, version_id, steps) ==
    [i \in DOMAIN steps |-> step_record(pid, case_id, version_id, steps[i])]

\* The records one case contributes: none when its test_steps string cannot
\* be evaluated, or when the value is not a list.
case_step_records(row) ==
    LET field == row.test_steps
        skipped == field.type = "str" /\ ~field.literal
        value == IF field.type = "str" THEN field.value ELSE field
    IN  IF skipped \/ value.type # "list" THEN <<>>
        ELSE step_records(row.pid, row.id, row.test_case_version_id, value.items)

unpack_case_steps(case_df) ==
    DataFrame(Flatten([i \in DOMAIN case_df |-> case_step_records(case_df[i])]))

\* Mutant: no row counts as outdated.
is_outdated_never(pid, df) == FALSE

\* Mutant: every row counts as outdated.
is_outdated_always(pid, df) == TRUE

\* test_case_step_df["pid"].isin(updated_cases_df["pid"])
is_outdated(pid, df) == \E i \in DOMAIN df : df[i].pid = pid

step_df_filtered(step_df, updated_df) ==
    [step_df EXCEPT !.rows = SelectSeq(@, LAMBDA r : ~is_outdated(r.pid, updated_df))]

\* The bodies a 200 answer of the steps endpoint can carry: lists of steps,
\* or a JSON object.
StepBodies ==
    { StepList(<<>>), StepList(<<501>>), StepList(<<501, 502>>),
      [type |-> "dict", items |-> <<[id |-> 900, order |-> 1]>>] }

\* Mutant: the body is taken for a list whatever it is.
steps_of_body_unchecked(body) == body.items

\* What get_steps_by_case_version returns for a 200 body.
steps_of_body(body) == IF body.type = "list" THEN body.items ELSE <<>>

\* The for loop over updated_cases_df from row i on, new_step_rows being
\* `rows`: to the next steps lookup that sends a request, or to its end and
\* the concatenation.
UpdateLoop(i, rows, rets) ==
    /\ IF i <= Len(updated_cases_df) /\ CONFIG.request_retries > 0
       THEN /\ pc' = "updating"
            /\ http' = Request("steps", updated_cases_df[i].id)
            /\ requests' = requests \cup {<<"steps", updated_cases_df[i].id>>}
            /\ loop' = [i |-> i, rows |-> rows]
            /\ returns' = rets
            /\ UNCHANGED test_case_step_df
       ELSE /\ pc' = "annotate"
            /\ http' = NoRequest
            /\ loop' = NoLoop
            /\ returns' = rets \o [k \in 1..(Len(updated_cases_df) - i + 1) |->
                                      Return("steps", updated_cases_df[i + k - 1].id,
                                             "unsent", <<>>)]
            /\ test_case_step_df' =
                   concat(step_df_filtered(unpacked_step_df, updated_cases_df),
                          DataFrame(rows))
            /\ UNCHANGED requests
    /\ UNCHANGED <<auto_result_df, fetched_df, test_case_df, updated_cases_df,
                   unpacked_step_df, suite_id, test_runs, error>>

\* Line 401: unpack_case_steps.
Unpack ==
    /\ pc = "unpack"
    /\ pc' = "update"
    /\ unpacked_step_df' = unpack_case_steps(test_case_df)
    /\ UNCHANGED <<auto_result_df, fetched_df, test_case_df, updated_cases_df,
                   test_case_step_df, loop, http, requests, returns, suite_id,
                   test_runs, error>>
    /\ UNCHANGED fvars

\* Line 402: update_case_steps up to its first request; test_case_step_df["pid"]
\* raises KeyError on a frame without that column.
UpdateSteps ==
    /\ pc = "update"
    /\ IF "pid" \notin unpacked_step_df.columns
       THEN Abort("KeyError")
       ELSE UpdateLoop(1, <<>>, returns)
    /\ UNCHANGED fvars

\* An attempt of get_steps_by_case_version ends.
StepsRespond(resp) ==
    /\ pc = "updating"
    /\ http.endpoint = "steps"
    /\ LET row == updated_cases_df[loop.i]
           done(how, steps) ==
               UpdateLoop(loop.i + 1,
                          loop.rows \o step_records(row.pid, row.id,
                                                    row.test_case_version_id, steps),
                          Append(returns, Return("steps", http.key, how, steps)))
       IN  IF resp.kind = "status" /\ resp.status = 200
           THEN done(IF resp.body.type = "list" THEN "200" ELSE "not a list",
                     steps_of_body(resp.body))
           ELSE IF http.attempt < CONFIG.request_retries
           THEN /\ http' = [http EXCEPT !.attempt = @ + 1,
                                        !.last = IF resp.kind = "status"
                                                 THEN resp.status ELSE @]
                /\ UNCHANGED <<pc, auto_result_df, fetched_df, test_case_df,
                               updated_cases_df, unpacked_step_df,
                               test_case_step_df, loop, requests, returns,
                               suite_id, test_runs, error>>
           ELSE done("exhausted", <<>>)
    /\ UNCHANGED fvars

(***************************************************************************)
(* Status annotation (modules/utils.py, lines 6-63).                       *)
(***************************************************************************)
\* existing ? existing + "\n" + message : message
append_status(target, message) == [target EXCEPT !.status = Append(@, message)]

update_upload_status_for_missing_cases(targets, case_df) ==
    LET existing_pids == {case_df[i].pid : i \in DOMAIN case_df}
    IN  [i \in DOMAIN targets |->
            IF targets[i].test_case_pid # "" /\ targets[i].test_case_pid \notin existing_pids
            THEN append_status(targets[i], "Test case not found")
            ELSE targets[i]]

\* test_case_step_df["pid"].value_counts().get(pid, 0)
\* Mutant: a pid counts once however many step rows it has.
step_count_distinct(step_df, pid) ==
    IF \E i \in DOMAIN step_df.rows : step_df.rows[i].pid = pid THEN 1 ELSE 0

step_count(step_df, pid) ==
    Cardinality({i \in DOMAIN step_df.rows : step_df.rows[i].pid = pid})

RECURSIVE update_upload_status_for_cases_step_count(_, _, _)
update_upload_status_for_cases_step_count(targets, case_df, step_df) ==
    IF case_df = <<>> THEN targets
    ELSE LET pid == Head(case_df).pid
             count == step_count(step_df, pid)
             marked(message) ==
                 [i \in DOMAIN targets |->
                     IF targets[i].test_case_pid = pid
                     THEN append_status(targets[i], message) ELSE targets[i]]
             targets1 == IF count = 0 THEN marked("No test steps found")
                         ELSE IF count > 1 THEN marked("Multiple test steps found")
                         ELSE targets
         IN  update_upload_status_for_cases_step_count(targets1, Tail(case_df), step_df)

\* dict(zip(pids, values)).get(pid): the value of the last row with the pid,
\* 0 (NaN after .map) when there is none.
lookup(case_df, pid, field) ==
    LET match == {i \in DOMAIN case_df : case_df[i].pid = pid}
    IN  IF match = {} THEN 0
        ELSE case_df[CHOOSE i \in match : \A j \in match : j <= i][field]

add_case_id(case_df, targets) ==
    [i \in DOMAIN targets |->
        [test_case_id |-> lookup(case_df, targets[i].test_case_pid, "id"),
         test_case_version_id |->
             lookup(case_df, targets[i].test_case_pid, "test_case_version_id")]
        @@ targets[i]]

\* Lines 405-407.
Annotate ==
    /\ pc = "annotate"
    /\ IF "pid" \notin test_case_step_df.columns
       THEN Abort("KeyError")
       ELSE /\ pc' = "suite"
            /\ auto_result_df' =
                   add_case_id(test_case_df,
                       update_upload_status_for_cases_step_count(
                           update_upload_status_for_missing_cases(auto_result_df,
                                                                  test_case_df),
                           test_case_df, test_case_step_df))
            /\ UNCHANGED <<fetched_df, test_case_df, updated_cases_df,
                           unpacked_step_df, test_case_step_df, loop, http,
                           requests, returns, suite_id, test_runs, error>>
    /\ UNCHANGED fvars

(***************************************************************************)
(* create_test_suite, create_test_runs, execute_test_runs.                 *)
(***************************************************************************)
\* The bodies a 200 answer to the suite creation can carry (id 0: no id).
SuiteBodies == { [id |-> 700], [id |-> 0] }

\* Statuses answered to a POST that creates a run or a log.
PostStatuses == {201} \cup (Statuses \ {200})

PostResponses ==
    { [kind |-> "status", status |-> st] : st \in PostStatuses }
    \cup { [kind |-> "exception", status |-> 0] }

\* Mutant: any 200 body is taken to carry the suite id.
has_suite_id_any(body) == TRUE

\* suite_data.get("id") is truthy.
has_suite_id(body) == body.id # 0

\* Line 411: create_test_suite up to its first request; with
\* request_retries = 0 the loop is skipped and line 217 raises.
CreateSuite ==
    /\ pc = "suite"
    /\ IF CONFIG.request_retries = 0
       THEN Abort("Exception")
       ELSE /\ pc' = "creating_suite"
            /\ http' = Request("suite", 0)
            /\ requests' = requests \cup {<<"suite", 0>>}
            /\ loop' = [i |-> 1, rows |-> <<>>]
            /\ UNCHANGED <<auto_result_df, fetched_df, test_case_df,
                           updated_cases_df, unpacked_step_df, test_case_step_df,
                           returns, suite_id, test_runs, error>>
    /\ UNCHANGED fvars

\* An attempt of create_test_suite ends; loop.i is delay_seconds, loop.rows
\* the sleeps so far. After the last attempt the log line reads `response`,
\* which is unbound when every attempt raised, before line 217 raises.
SuiteRespond(resp) ==
    /\ pc = "creating_suite"
    /\ http.endpoint = "suite"
    /\ LET last == IF resp.kind = "status" THEN resp.status ELSE http.last
       IN  IF resp.kind = "status" /\ resp.status = 200 /\ has_suite_id(resp.body)
           THEN /\ pc' = "runs"
                /\ suite_id' = resp.body.id
                /\ http' = NoRequest
                /\ loop' = NoLoop
                /\ UNCHANGED <<auto_result_df, fetched_df, test_case_df,
                               updated_cases_df, unpacked_step_df,
                               test_case_step_df, requests, returns, test_runs,
                               error>>
           ELSE IF http.attempt < CONFIG.request_retries
           THEN /\ http' = [http EXCEPT !.attempt = @ + 1, !.last = last]
                /\ loop' = [i |-> 2 * loop.i, rows |-> Append(loop.rows, loop.i)]
                /\ UNCHANGED <<pc, auto_result_df, fetched_df, test_case_df,
                               updated_cases_df, unpacked_step_df,
                               test_case_step_df, requests, returns, suite_id,
                               test_runs, error>>
           ELSE IF last = 0 THEN Abort("UnboundLocalError")
           ELSE Abort("Exception")
    /\ UNCHANGED fvars

\* Line 414: the targets whose Upload Status is empty.
\* Mutant: every target is taken, whatever its Upload Status.
valid_case_df_all == auto_result_df

valid_case_df == SelectSeq(auto_result_df, LAMBDA t : t.status = <<>>)

RunColumns == {"test_case_pid", "test_case_id", "test_run_name", "test_run_id"}

\* pd.DataFrame(created_runs)
RunFrame(records) ==
    [columns |-> IF records = <<>> THEN {} ELSE RunColumns, rows |-> records]

\* The first index from i on whose record is not skipped by create_test_runs
\* (a record whose run name is falsy or whose case id is NaN is; a NaN run
\* name is truthy and is not skipped); 0 when none is left.
NextRunIndex(i) ==
    LET left == {j \in i..Len(valid_case_df) :
                    /\ valid_case_df[j].test_run_name # ""
                    /\ valid_case_df[j].test_case_id # 0}
    IN  IF left = {} THEN 0 ELSE CHOOSE j \in left : \A k \in left : j <= k

\* The for loop of create_test_runs from record i on: to the next request,
\* or to its end.
RunsLoop(i, rows, rets) ==
    /\ returns' = rets
    /\ IF NextRunIndex(i) # 0
       THEN /\ pc' = "creating_runs"
            /\ http' = Request("runs", NextRunIndex(i))
            /\ requests' = requests \cup {<<"runs", NextRunIndex(i)>>}
            /\ loop' = [i |-> NextRunIndex(i), rows |-> rows]
            /\ UNCHANGED test_runs
       ELSE /\ pc' = "execute"
            /\ http' = NoRequest
            /\ loop' = NoLoop
            /\ test_runs' = RunFrame(rows)
            /\ UNCHANGED requests
    /\ UNCHANGED <<auto_result_df, fetched_df, test_case_df, updated_cases_df,
                   unpacked_step_df, test_case_step_df, suite_id, error>>

\* Line 415: create_test_runs up to its first request.
CreateRuns ==
    /\ pc = "runs"
    /\ RunsLoop(1, <<>>, returns)
    /\ UNCHANGED fvars

\* The one attempt of a run creation ends: 201 appends a run record, any
\* other outcome is logged ("rejected": a status below 500, "failed": a 5xx
\* status or an exception); the loop goes on. A body whose name is NaN is
\* not sent: requests.post raises while it serialises the body.
RunRespond(resp) ==
    /\ pc = "creating_runs"
    /\ http.endpoint = "runs"
    /\ valid_case_df[loop.i].test_run_name = NaN => resp.kind = "exception"
    /\ LET record == valid_case_df[loop.i]
           run == [test_case_pid |-> record.test_case_pid,
                   test_case_id |-> record.test_case_id,
                   test_run_name |-> record.test_run_name,
                   test_run_id |-> 800 + loop.i]
       IN  IF resp.kind = "status" /\ resp.status = 201
           THEN RunsLoop(loop.i + 1, Append(loop.rows, run),
                         Append(returns, Return("runs", loop.i, "201", <<run>>)))
           ELSE RunsLoop(loop.i + 1, loop.rows,
                         Append(returns,
                                Return("runs", loop.i,
                                       IF resp.kind = "status" /\ resp.status < 500
                                       THEN "rejected" ELSE "failed",
                                       <<>>)))
    /\ UNCHANGED fvars

\* Mutant: the code is looked up under the other result's name.
result_code_swapped(test_result) ==
    LET other == IF test_result = "Passed" THEN "Failed" ELSE "Passed"
    IN  IF other \in DOMAIN CONFIG.execution_status_mapping
        THEN CONFIG.execution_status_mapping[other]
        ELSE 0

\* execution_status_mapping.get(test_result): 0 stands for None.
result_code(test_result) ==
    IF test_result \in DOMAIN CONFIG.execution_status_mapping
    THEN CONFIG.execution_status_mapping[test_result]
    ELSE 0

\* frame[frame[column] == value].iloc[0]
first_row(frame, column, value) ==
    LET match == {i \in DOMAIN frame.rows : frame.rows[i][column] = value}
    IN  frame.rows[CHOOSE i \in match : \A j \in match : i <= j]

has_row(frame, column, value) ==
    \E i \in DOMAIN frame.rows : frame.rows[i][column] = value

\* The for loop of execute_test_runs from record i on: what it reaches first,
\* the posting of a record's result, an uncaught KeyError (test_runs without
\* columns) or its end. A record without result code, run or step is skipped.
RECURSIVE ExecScan(_)
ExecScan(i) ==
    IF i > Len(valid_case_df) THEN [kind |-> "end", i |-> 0]
    ELSE LET pid == valid_case_df[i].test_case_pid
         IN  IF result_code(valid_case_df[i].test_result) = 0 THEN ExecScan(i + 1)
             ELSE IF "test_case_pid" \notin test_runs.columns
             THEN [kind |-> "raise", i |-> i]
             ELSE IF ~has_row(test_runs, "test_case_pid", pid) THEN ExecScan(i + 1)
             ELSE IF ~has_row(test_case_step_df, "pid", pid) THEN ExecScan(i + 1)
             ELSE IF CONFIG.request_retries = 0 THEN ExecScan(i + 1)
             ELSE [kind |-> "post", i |-> i]

ExecLoop(i, rets) ==
    LET next == ExecScan(i)
    IN  IF next.kind = "raise"
        THEN Abort("KeyError")
        ELSE /\ IF next.kind = "post"
                THEN LET run == first_row(test_runs, "test_case_pid",
                                          valid_case_df[next.i].test_case_pid)
                     IN  /\ pc' = "executing"
                         /\ http' = Request("logs", run.test_run_id)
                         /\ requests' = requests \cup {<<"logs", run.test_run_id>>}
                         /\ loop' = [i |-> next.i, rows |-> <<>>]
                ELSE /\ pc' = "done"
                     /\ http' = NoRequest
                     /\ loop' = NoLoop
                     /\ UNCHANGED requests
             /\ returns' = rets
             /\ UNCHANGED <<auto_result_df, fetched_df, test_case_df,
                            updated_cases_df, unpacked_step_df, test_case_step_df,
                            suite_id, test_runs, error>>

\* Line 424: execute_test_runs up to its first request.
ExecuteRuns ==
    /\ pc = "execute"
    /\ ExecLoop(1, returns)
    /\ UNCHANGED fvars

\* Mutant: the retry loop has no break, a 201 is followed by the next attempt.
LogRespondNoBreak(resp) ==
    /\ pc = "executing"
    /\ http.endpoint = "logs"
    /\ LET record == valid_case_df[loop.i]
           step == first_row(test_case_step_df, "pid", record.test_case_pid)
           log == [target |-> loop.i,
                   test_case_pid |-> record.test_case_pid,
                   test_run_id |-> http.key,
                   test_step_id |-> step.step_id,
                   status_id |-> result_code(record.test_result),
                   status |-> record.test_result]
       IN  IF http.attempt < CONFIG.request_retries
           THEN /\ http' = [http EXCEPT !.attempt = @ + 1,
                                        !.last = IF resp.kind = "status"
                                                 THEN resp.status ELSE @]
                /\ UNCHANGED <<pc, auto_result_df, fetched_df, test_case_df,
                               updated_cases_df, unpacked_step_df,
                               test_case_step_df, loop, requests, returns,
                               suite_id, test_runs, error>>
           ELSE ExecLoop(loop.i + 1,
                         Append(returns,
                                Return("logs", http.key,
                                       IF resp.kind = "status" /\ resp.status = 201
                                       THEN "201" ELSE "exhausted",
                                       <<log>>)))
    /\ UNCHANGED fvars

\* An attempt of a result posting ends: 201 leaves the retry loop, anything
\* else goes to the next attempt at once; after the last one the record is
\* given up and the loop goes on.
LogRespond(resp) ==
    /\ pc = "executing"
    /\ http.endpoint = "logs"
    /\ LET record == valid_case_df[loop.i]
           step == first_row(test_case_step_df, "pid", record.test_case_pid)
           log == [target |-> loop.i,
                   test_case_pid |-> record.test_case_pid,
                   test_run_id |-> http.key,
                   test_step_id |-> step.step_id,
                   status_id |-> result_code(record.test_result),
                   status |-> record.test_result]
           done(how) ==
               ExecLoop(loop.i + 1,
                        Append(returns, Return("logs", http.key, how, <<log>>)))
       IN  IF resp.kind = "status" /\ resp.status = 201
           THEN done("201")
           ELSE IF http.attempt < CONFIG.request_retries
           THEN /\ http' = [http EXCEPT !.attempt = @ + 1,
                                        !.last = IF resp.kind = "status"
                                                 THEN resp.status ELSE @]
                /\ UNCHANGED <<pc, auto_result_df, fetched_df, test_case_df,
                               updated_cases_df, unpacked_step_df,
                               test_case_step_df, loop, requests, returns,
                               suite_id, test_runs, error>>
           ELSE done("exhausted")
    /\ UNCHANGED fvars

(***************************************************************************)
(* The pipeline as a state machine: the workbook is read, the run starts   *)
(* at the search.                                                          *)
(***************************************************************************)
\* The result-to-code mappings tried: both results mapped, "Failed" missing.
StatusMappings ==
    { [Passed |-> 601, Failed |-> 602], [Passed |-> 601] }

\* The configurations of the pipeline: the defaults of the search (chunk size
\* 50, page size 100, 5 concurrent requests), every retry limit, a mapping.
PipelineConfigs ==
    [case_search_chunk_size : {50},
     request_page_size : {100},
     request_retries : 0..MaxRetries,
     max_concurrent_requests : {5},
     execution_status_mapping : StatusMappings]

InitPipeline ==
    /\ CONFIG \in PipelineConfigs
    /\ auto_result_df \in TargetTables
    /\ test_case_pids = eligible_pids(auto_result_df)
    /\ remote = {}
    /\ served_page_size = 1
    /\ fetch = [st |-> "start", result |-> <<>>, error |-> NoError]
    /\ chunk = <<>>
    /\ calls = <<>>
    /\ pc = "search"
    /\ fetched_df = <<>>
    /\ test_case_df = <<>>
    /\ updated_cases_df = <<>>
    /\ unpacked_step_df = NoFrame
    /\ test_case_step_df = NoFrame
    /\ loop = NoLoop
    /\ http = NoRequest
    /\ requests = {}
    /\ returns = <<>>
    /\ suite_id = 0
    /\ test_runs = NoFrame
    /\ error = "none"

NextPipeline ==
    \/ \E df \in CaseTables(test_case_pids) : Search(df)
    \/ \E exception \in SearchErrors : SearchRaises(exception)
    \/ Resolve
    \/ \E resp \in BlockingResponses(Histories(http.key), <<>>) : VersionsRespond(resp)
    \/ Unpack
    \/ UpdateSteps
    \/ \E resp \in BlockingResponses(StepBodies, StepList(<<>>)) : StepsRespond(resp)
    \/ Annotate
    \/ CreateSuite
    \/ \E resp \in BlockingResponses(SuiteBodies, [id |-> 0]) : SuiteRespond(resp)
    \/ CreateRuns
    \/ \E resp \in PostResponses : RunRespond(resp)
    \/ ExecuteRuns
    \/ \E resp \in PostResponses : LogRespond(resp)

SpecPipeline == InitPipeline /\ [][NextPipeline]_vars

(***************************************************************************)
(* Observations of the pipeline used by the properties.                    *)
(***************************************************************************)
\* What the lookups of one endpoint returned, in call order: the i-th
\* version lookup is that of the i-th row of needs_update, the i-th steps
\* lookup that of the i-th row of the changed subset.
ReturnsOf(endpoint) == SelectSeq(returns, LAMBDA r : r.endpoint = endpoint)

\* get_latest_approved_versions has returned.
ResolverReturned ==
    /\ fetched_df # <<>>
    /\ pc \notin {"search", "resolve", "resolving"}

\* update_case_steps has returned.
StepsReconciled == "pid" \in test_case_step_df.columns

\* The rank of row i of the fetched table among the rows needing an update.
LookupIndex(i) ==
    Cardinality({j \in 1..i : ~endswith(fetched_df[j].version, DotZero)})

\* The version history the resolver obtained for row i of the fetched table.
HistoryOf(i) == ReturnsOf("versions")[LookupIndex(i)].result

ApprovedIn(history) ==
    {j \in DOMAIN history : endswith(history[j].version, DotZero)}

\* The rows of the fetched table whose version is not approved and whose
\* history holds an approved version.
Resolvable ==
    {i \in DOMAIN fetched_df :
        /\ ~endswith(fetched_df[i].version, DotZero)
        /\ ApprovedIn(HistoryOf(i)) # {}}

ChangedPids == {updated_cases_df[i].pid : i \in DOMAIN updated_cases_df}

SameVersion(a, b) ==
    /\ a.id = b.id
    /\ a.version = b.version
    /\ a.test_case_version_id = b.test_case_version_id

\* C12: every case whose version does not end in ".0" and whose history has
\* a ".0" entry takes the id, version and versionRef of the ".0" entry with
\* the greatest leading integer, and exactly these cases, with their new
\* values, form the changed subset.
C12_LatestApprovedVersionTaken ==
    ResolverReturned =>
        /\ \A i \in Resolvable :
              \E j \in ApprovedIn(HistoryOf(i)) :
                  /\ \A k \in ApprovedIn(HistoryOf(i)) :
                        parse_version(HistoryOf(i)[k].version)
                            <= parse_version(HistoryOf(i)[j].version)
                  /\ SameVersion(test_case_df[i], HistoryOf(i)[j])
        /\ updated_cases_df =
               SelectSeq(test_case_df,
                         LAMBDA row : \E i \in Resolvable : fetched_df[i].pid = row.pid)

\* C12 witness: a case at "1.3" whose history is ["2.0", "10.0", "1.3"] is
\* now at "10.0" and is the changed subset.
C12_Witness ==
    /\ ResolverReturned
    /\ \E i \in Resolvable :
          /\ fetched_df[i].version = <<"1", ".", "3">>
          /\ Len(HistoryOf(i)) = 3
          /\ test_case_df[i].version = <<"1", "0", ".", "0">>
          /\ updated_cases_df = <<test_case_df[i]>>

\* The approved entries of a history that carry the greatest leading integer.
GreatestApproved(history) ==
    {j \in ApprovedIn(history) :
        \A k \in ApprovedIn(history) :
            parse_version(history[k].version) <= parse_version(history[j].version)}

\* C30: when several approved entries of a history share the greatest
\* leading integer, the resolver takes the one that comes first in the order
\* the service returned.
C30_FirstReturnedOfEqualVersions ==
    ResolverReturned =>
        \A i \in Resolvable :
            LET first == CHOOSE j \in GreatestApproved(HistoryOf(i)) :
                             \A k \in GreatestApproved(HistoryOf(i)) : j <= k
            IN  SameVersion(test_case_df[i], HistoryOf(i)[first])

\* C30 witness: a history with two different entries at "2.0" was returned
\* and the case took the first of them.
C30_Witness ==
    /\ ResolverReturned
    /\ \E i \in Resolvable :
          /\ GreatestApproved(HistoryOf(i)) = {1, 2}
          /\ HistoryOf(i)[1].id # HistoryOf(i)[2].id
          /\ test_case_df[i].id = HistoryOf(i)[1].id

\* C13: a case whose version does not end in ".0" and whose history has no
\* ".0" entry keeps its id, version and versionRef, is not in the changed
\* subset, and the resolver goes on to look up every remaining case.
C13_NoApprovedVersionKeepsCase ==
    ResolverReturned =>
        /\ \A i \in DOMAIN fetched_df :
              (/\ ~endswith(fetched_df[i].version, DotZero)
               /\ ApprovedIn(HistoryOf(i)) = {}) =>
                  /\ test_case_df[i] = fetched_df[i]
                  /\ fetched_df[i].pid \notin ChangedPids
        /\ Len(ReturnsOf("versions")) = Len(needs_update(fetched_df))

\* C13 witness: the first of two cases has a history without approved
\* version, the second one was looked up after it and changed.
C13_Witness ==
    /\ ResolverReturned
    /\ Len(fetched_df) = 2
    /\ ~endswith(fetched_df[1].version, DotZero)
    /\ HistoryOf(1) # <<>>
    /\ ApprovedIn(HistoryOf(1)) = {}
    /\ test_case_df[1] = fetched_df[1]
    /\ ChangedPids = {fetched_df[2].pid}

\* C14: a case whose version already ends in ".0" is untouched: no version
\* history request is issued for it, its record is the same after the
\* resolver and it is never in the changed subset.
C14_ApprovedCaseUntouched ==
    \A i \in DOMAIN fetched_df :
        endswith(fetched_df[i].version, DotZero) =>
            /\ <<"versions", fetched_df[i].id>> \notin requests
            /\ ResolverReturned =>
                  /\ test_case_df[i] = fetched_df[i]
                  /\ fetched_df[i].pid \notin ChangedPids

\* C14 witness: an approved case next to a case that was looked up and changed.
C14_Witness ==
    /\ ResolverReturned
    /\ Len(fetched_df) = 2
    /\ endswith(fetched_df[1].version, DotZero)
    /\ test_case_df[1] = fetched_df[1]
    /\ ChangedPids = {fetched_df[2].pid}
    /\ requests # {}

\* C15: the resolver called on an empty case table raises at once, before any
\* version history request; a run whose search found no case is aborted
\* there, without any request, so before the suite is created.
C15_EmptyCaseSetAborts ==
    (/\ pc \notin {"search", "resolve"}
     /\ fetched_df = <<>>
     /\ error \notin SearchErrors) =>
        /\ pc = "aborted"
        /\ error = "ValueError"
        /\ requests = {}

\* C15 witness: a run with targets whose search returned no case has been
\* aborted by the resolver.
C15_Witness ==
    /\ pc = "aborted"
    /\ error = "ValueError"
    /\ auto_result_df # <<>>
    /\ test_case_pids # <<>>
    /\ fetched_df = <<>>

\* The rows of a step table that belong to one pid.
RowsOfPid(step_df, pid) == SelectSeq(step_df.rows, LAMBDA r : r.pid = pid)

\* The steps the i-th steps lookup (that of the i-th changed case) returned.
FetchedSteps(i) == ReturnsOf("steps")[i].result

\* C16: after step reconciliation no row of a changed pid is a row that
\* existed before the re-fetch: its rows are exactly the steps the fresh
\* lookup returned, each with the case's new id and versionRef (none when the
\* lookup returned nothing).
C16_ChangedPidHasOnlyFreshRows ==
    StepsReconciled =>
        \A i \in DOMAIN updated_cases_df :
            LET case == updated_cases_df[i]
                rows == RowsOfPid(test_case_step_df, case.pid)
            IN  /\ Len(rows) = Len(FetchedSteps(i))
                /\ \A k \in DOMAIN rows :
                      /\ rows[k].step_id = FetchedSteps(i)[k].id
                      /\ rows[k].test_case_id = case.id
                      /\ rows[k].test_case_version_id = case.test_case_version_id
                      /\ \A m \in DOMAIN unpacked_step_df.rows :
                            unpacked_step_df.rows[m] # rows[k]

\* C16 witness: a changed case that had a row before the re-fetch and has a
\* freshly fetched row after it.
C16_Witness ==
    /\ StepsReconciled
    /\ \E i \in DOMAIN updated_cases_df :
          /\ RowsOfPid(unpacked_step_df, updated_cases_df[i].pid) # <<>>
          /\ FetchedSteps(i) # <<>>
          /\ RowsOfPid(test_case_step_df, updated_cases_df[i].pid) # <<>>

\* The rows the re-fetch produced for the changed cases from i on, in order.
RECURSIVE FreshRows(_)
FreshRows(i) ==
    IF i > Len(updated_cases_df) THEN <<>>
    ELSE [k \in DOMAIN FetchedSteps(i) |->
             [pid |-> updated_cases_df[i].pid,
              test_case_id |-> updated_cases_df[i].id,
              test_case_version_id |-> updated_cases_df[i].test_case_version_id,
              step_id |-> FetchedSteps(i)[k].id,
              step_order |-> FetchedSteps(i)[k].order]]
         \o FreshRows(i + 1)

\* The rows of a step table whose pid is not a changed one.
UnchangedRows(step_df) ==
    SelectSeq(step_df.rows, LAMBDA r : r.pid \notin ChangedPids)

\* C17: step reconciliation leaves the rows of every pid outside the changed
\* set as they were, none added or removed, and the final table is those
\* rows followed by the freshly fetched rows of the changed cases.
C17_UnchangedPidRowsKept ==
    StepsReconciled =>
        /\ UnchangedRows(test_case_step_df) = UnchangedRows(unpacked_step_df)
        /\ test_case_step_df.rows = UnchangedRows(unpacked_step_df) \o FreshRows(1)

\* C17 witness: an unchanged case keeps its row while a changed case got a
\* freshly fetched one.
C17_Witness ==
    /\ StepsReconciled
    /\ UnchangedRows(unpacked_step_df) # <<>>
    /\ FreshRows(1) # <<>>
    /\ Len(test_case_step_df.rows) = Len(UnchangedRows(unpacked_step_df)) + Len(FreshRows(1))

\* C18: a steps lookup never raises to the reconciler: a lookup that failed
\* on every attempt, or whose 200 body is not a list, returns no step, the
\* case has no row, every changed case is looked up, and no run is aborted
\* in the middle of the re-fetch.
C18_FailedStepsFetchGivesNoRows ==
    /\ \A i \in DOMAIN ReturnsOf("steps") :
          ReturnsOf("steps")[i].how \in {"exhausted", "not a list"} =>
              /\ FetchedSteps(i) = <<>>
              /\ StepsReconciled =>
                    RowsOfPid(test_case_step_df, updated_cases_df[i].pid) = <<>>
    /\ StepsReconciled => Len(ReturnsOf("steps")) = Len(updated_cases_df)
    /\ (pc = "aborted" /\ ~StepsReconciled) => ReturnsOf("steps") = <<>>

\* C18 witness: of two changed cases the first's lookup failed on every
\* attempt, the second's 200 body was not a list, and the table is there.
C18_Witness ==
    /\ StepsReconciled
    /\ Len(updated_cases_df) = 2
    /\ ReturnsOf("steps")[1].how = "exhausted"
    /\ ReturnsOf("steps")[2].how = "not a list"
    /\ RowsOfPid(unpacked_step_df, updated_cases_df[1].pid) # <<>>
    /\ test_case_step_df.rows = <<>>

\* C19 (as claimed): flattening, the re-fetch for changed cases and the
\* step-count annotation complete without raising for every case table: a
\* run that has a case table is never aborted before its targets are
\* annotated.
C19_FlatteningNeverAborts ==
    (pc = "aborted" /\ test_case_df # <<>>) =>
        \A i \in DOMAIN auto_result_df : "test_case_id" \in DOMAIN auto_result_df[i]

\* A run creation or a result posting has been requested.
RunOrLogRequested == \E r \in requests : r[1] \in {"runs", "logs"}

\* The suite creation gave up: line 217 (or the log line before it) raised.
SuiteCreationFailed == pc = "aborted" /\ error \in {"Exception", "UnboundLocalError"}

\* C20: a run creation is requested only after the suite creation returned a
\* suite id; the suite creation makes at most request_retries attempts, and
\* when all of them fail the run is aborted without any run creation or
\* result posting request.
C20_RunsOnlyAfterSuiteCreated ==
    /\ RunOrLogRequested => suite_id # 0
    /\ pc \in {"runs", "creating_runs", "execute", "executing", "done"} => suite_id # 0
    /\ pc = "creating_suite" => http.attempt <= CONFIG.request_retries
    /\ SuiteCreationFailed => (suite_id = 0 /\ ~RunOrLogRequested)

\* C20 witness: a suite creation that was attempted more than once has
\* failed and aborted a run that had a target ready for its run creation.
C20_Witness ==
    /\ SuiteCreationFailed
    /\ <<"suite", 0>> \in requests
    /\ CONFIG.request_retries > 1
    /\ NextRunIndex(1) # 0
    /\ ~RunOrLogRequested

\* The targets create_test_runs sends a request for.
RunTargets ==
    {j \in DOMAIN valid_case_df :
        valid_case_df[j].test_run_name # "" /\ valid_case_df[j].test_case_id # 0}

\* The targets execute_test_runs posts a result for: a mapped result, a run
\* and a step row with the target's pid.
PostTargets ==
    {j \in DOMAIN valid_case_df :
        /\ result_code(valid_case_df[j].test_result) # 0
        /\ has_row(test_runs, "test_case_pid", valid_case_df[j].test_case_pid)
        /\ has_row(test_case_step_df, "pid", valid_case_df[j].test_case_pid)}

\* The runs whose creation was answered 201, in the order of their creation.
CreatedRuns ==
    Flatten([i \in DOMAIN ReturnsOf("runs") |-> ReturnsOf("runs")[i].result])

RunAttempted(j) == \E r \in DOMAIN ReturnsOf("runs") : ReturnsOf("runs")[r].key = j

PostAttempted(j) ==
    \E r \in DOMAIN ReturnsOf("logs") : ReturnsOf("logs")[r].result[1].target = j

\* execute_test_runs has raised: after the suite was created nothing else of
\* the pipeline raises.
ExecuteRaised == pc = "aborted" /\ suite_id # 0

\* create_test_runs has returned: execute_test_runs is the next call, is
\* running, has returned or has raised.
RunsReturned == pc \in {"execute", "executing", "done"} \/ ExecuteRaised

\* The run creation of target j has failed.
RunFailed(j) ==
    \E r \in DOMAIN ReturnsOf("runs") :
        ReturnsOf("runs")[r].key = j /\ ReturnsOf("runs")[r].how # "201"

\* C21 (as claimed): a failed run creation or result posting only skips its
\* target. Every target create_test_runs has passed had its request and the
\* runs created so far are all recorded; every target execute_test_runs has
\* passed that has a mapped result, a run and a step had its posting; the
\* target whose run creation failed gets no posting; and the failure does
\* not end the pipeline.
C21_FailureSkipsOneTargetOnly ==
    /\ pc = "creating_runs" =>
          /\ \A j \in RunTargets : j < loop.i => RunAttempted(j)
          /\ loop.rows = CreatedRuns
    /\ RunsReturned =>
          /\ \A j \in RunTargets : RunAttempted(j)
          /\ test_runs.rows = CreatedRuns
    /\ pc = "executing" => \A j \in PostTargets : j < loop.i => PostAttempted(j)
    /\ pc = "done" => \A j \in PostTargets : PostAttempted(j)
    /\ \A j \in DOMAIN valid_case_df : RunFailed(j) => ~PostAttempted(j)
    /\ (\E j \in DOMAIN valid_case_df : RunFailed(j)) => ~ExecuteRaised

\* The run records held at this point: those collected by the loop of
\* create_test_runs while it runs, the run table afterwards.
RunRecords ==
    IF pc = "creating_runs" THEN loop.rows ELSE test_runs.rows

\* C22: at every point every record of the run table belongs to a target
\* with an empty Upload Status, a run name and a case id, whose run creation
\* was answered 201; pid, case id and run name are the target's and the run
\* id is the one of the response.
C22_RunRecordsComeFromCreatedRuns ==
    \A n \in DOMAIN RunRecords :
        \E k \in DOMAIN auto_result_df, r \in DOMAIN ReturnsOf("runs") :
            LET target == auto_result_df[k]
                answer == ReturnsOf("runs")[r]
            IN  /\ target.status = <<>>
                /\ target.test_run_name \notin {"", NaN}
                /\ target.test_case_id # 0
                /\ valid_case_df[answer.key] = target
                /\ answer.how = "201"
                /\ RunRecords[n].test_run_id = answer.result[1].test_run_id
                /\ RunRecords[n].test_case_pid = target.test_case_pid
                /\ RunRecords[n].test_case_id = target.test_case_id
                /\ RunRecords[n].test_run_name = target.test_run_name

\* C22 witness: the pipeline has ended with a run in the run table, and a
\* target with a run name and a case id but a diagnostic status has none.
C22_Witness ==
    /\ pc = "done"
    /\ test_runs.rows # <<>>
    /\ \E k \in DOMAIN auto_result_df :
          /\ auto_result_df[k].status # <<>>
          /\ auto_result_df[k].test_run_name \notin {"", NaN}
          /\ auto_result_df[k].test_case_id # 0
          /\ \A n \in DOMAIN test_runs.rows :
                test_runs.rows[n].test_case_pid # auto_result_df[k].test_case_pid
\* C23: for a target without a mapped result, without a run of its pid or
\* without a step row of its pid no posting is issued, and result posting
\* goes on with the next target instead of ending.
C23_UnpostableTargetSkipped ==
    /\ pc = "executing" => loop.i \in PostTargets
    /\ \A j \in DOMAIN valid_case_df : PostAttempted(j) => j \in PostTargets
    /\ ~ExecuteRaised
\* The logs of the postings made so far (given up or answered 201).
PostedLogs == [r \in DOMAIN ReturnsOf("logs") |-> ReturnsOf("logs")[r].result[1]]

\* C24: every target's result is posted to the run that was created for that
\* same target, so no run receives the results of two targets, also when
\* several targets carry the same pid.
C24_ResultPostedToOwnRun ==
    \A n \in DOMAIN PostedLogs :
        \E r \in DOMAIN ReturnsOf("runs") :
            /\ ReturnsOf("runs")[r].key = PostedLogs[n].target
            /\ ReturnsOf("runs")[r].how = "201"
            /\ ReturnsOf("runs")[r].result[1].test_run_id = PostedLogs[n].test_run_id
\* The end-to-end case: TC-1 and TC-2 are asked for with chunk size 50, the
\* fetch has returned TC-1 alone, at version "1.0" with one step, and the
\* result derived for TC-1 is "Passed".
OnlyFirstCaseFound ==
    /\ pc \notin {"search", "aborted"}
    /\ test_case_pids = <<"TC-1", "TC-2">>
    /\ CONFIG.case_search_chunk_size = 50
    /\ Len(fetched_df) = 1
    /\ fetched_df[1].pid = "TC-1"
    /\ fetched_df[1].version = <<"1", ".", "0">>
    /\ Len(fetched_df[1].test_steps.value.items) = 1
    /\ fetched_df[1].test_steps.literal
    /\ auto_result_df[1].test_case_pid = "TC-1"
    /\ auto_result_df[1].test_result = "Passed"

RequestsTo(endpoint) == {q \in requests : q[1] = endpoint}

\* C25: in the end-to-end case one search query is issued, the resolver
\* changes nothing and asks for no version history, the step table has one
\* row, one run is created, for TC-1, and one result is posted, on that run,
\* with the code mapped to "Passed"; nothing is created or posted for TC-2.
C25_OnlyFoundCaseIsUploaded ==
    OnlyFirstCaseFound =>
        /\ Len(search_queries(test_case_pids, CONFIG.case_search_chunk_size)) = 1
        /\ RequestsTo("versions") = {}
        /\ ResolverReturned => test_case_df = fetched_df /\ updated_cases_df = <<>>
        /\ StepsReconciled =>
              /\ Len(test_case_step_df.rows) = 1
              /\ RequestsTo("steps") = {}
        /\ RequestsTo("runs") \subseteq {<<"runs", 1>>}
        /\ (pc = "creating_runs" \/ RunsReturned) =>
              valid_case_df = <<auto_result_df[1]>>
        /\ RunsReturned =>
              /\ Len(ReturnsOf("runs")) = 1
              /\ RequestsTo("logs") \subseteq
                     {<<"logs", run.test_run_id>> : run \in {CreatedRuns[n] : n \in DOMAIN CreatedRuns}}
        /\ pc = "done" =>
              /\ Len(CreatedRuns) = 1
              /\ CreatedRuns[1].test_case_pid = "TC-1"
              /\ Len(PostedLogs) = 1
              /\ PostedLogs[1].target = 1
              /\ PostedLogs[1].test_case_pid = "TC-1"
              /\ PostedLogs[1].test_run_id = CreatedRuns[1].test_run_id
              /\ PostedLogs[1].status_id = CONFIG.execution_status_mapping["Passed"]

\* C25 witness: the end-to-end case has run to its end, the run was created
\* and the posting was answered 201.
C25_Witness ==
    /\ OnlyFirstCaseFound
    /\ pc = "done"
    /\ ReturnsOf("runs")[1].how = "201"
    /\ ReturnsOf("logs")[1].how = "201"
    /\ auto_result_df[2].test_case_pid = "TC-2"
    /\ auto_result_df[2].status # <<>>
\* C26: once the fetch has returned at least one case and the suite has been
\* created, no failure of a run creation or of a result posting ends the
\* pipeline before the hand-off to the writer: it never ends in an uncaught
\* exception.
C26_PipelineCompletesAfterSuite ==
    (fetched_df # <<>> /\ suite_id # 0) => pc # "aborted"
\* C31: suite creation and result posting back off like the retrying caller
\* of the search: when attempt a + 1 is under way, a delay was made after
\* every failed attempt before it, of 2^a after attempt a. (loop.rows holds
\* the delays the call in progress has made.)
C31_BlockingCallsBackOffLikeSearch ==
    pc \in {"creating_suite", "executing"} =>
        /\ Len(loop.rows) = http.attempt - 1
        /\ \A a \in DOMAIN loop.rows : loop.rows[a] = Backoff(a)
\* The step in which create_test_runs gives a target up after a 5xx answer
\* or an exception of the transport.
GivesUpRun ==
    /\ pc = "creating_runs"
    /\ returns' = Append(returns, Return("runs", loop.i, "failed", <<>>))

\* C32: a run creation that fails transiently is retried: its target is
\* given up only when the attempt that failed was the last of the configured
\* number of attempts.
C32_TransientRunFailureRetried ==
    [][GivesUpRun => http.attempt = CONFIG.request_retries]_vars
\* A blocking call (version history, steps by version, suite creation,
\* result posting) has an attempt under way.
BlockingCallUnderWay == http.endpoint \in {"versions", "steps", "suite", "logs"}

\* C33: for the blocking calls a 4xx answer ends the call after that single
\* attempt: no attempt is under way after an answer of status 400..499.
\* (http.last is the status of the last answer the call in progress got.)
C33_ClientErrorEndsBlockingCall ==
    BlockingCallUnderWay => ~(http.last >= 400 /\ http.last < 500)
\* The postings made for target j.
PostingsOf(j) == {n \in DOMAIN PostedLogs : PostedLogs[n].target = j}

\* C34: a posting under way is for a target that passed the skip checks, is
\* attempt 1..max, and no attempt before it was answered 201; every target
\* has at most one posting outcome and at most one 201; a target whose
\* attempts all failed is left and the loop moves on to the end.
C34_PostingStopsAtFirstSuccess ==
    /\ pc = "executing" =>
          /\ loop.i \in PostTargets
          /\ http.attempt >= 1
          /\ http.attempt <= CONFIG.request_retries
          /\ http.last # 201
          /\ PostingsOf(loop.i) = {}
          /\ \A j \in PostTargets : j < loop.i => PostingsOf(j) # {}
    /\ \A j \in DOMAIN valid_case_df : Cardinality(PostingsOf(j)) <= 1
    /\ \A r \in DOMAIN ReturnsOf("logs") :
          ReturnsOf("logs")[r].how \in {"201", "exhausted"}
    /\ pc = "done" => \A j \in PostTargets : Cardinality(PostingsOf(j)) = 1

\* C34 witness: with two attempts allowed, the posting of the first target
\* failed twice and was given up, the posting of the second was answered 201
\* and the pipeline came to its end.
C34_Witness ==
    /\ pc = "done"
    /\ CONFIG.request_retries = 2
    /\ Len(ReturnsOf("logs")) = 2
    /\ ReturnsOf("logs")[1].how = "exhausted"
    /\ ReturnsOf("logs")[2].how = "201"
    /\ PostedLogs[1].test_case_pid # PostedLogs[2].test_case_pid
\* The step rows of the reconciled step table for one pid.
StepRowsOf(pid) == RowsOfPid(test_case_step_df, pid)

\* C35: a result is posted for a target only if the reconciled step table
\* has exactly one row for its pid, and the step id sent is that row's; once
\* the targets are annotated, a target whose pid has no step row or several
\* has a diagnostic status, and it gets neither a run nor a result.
C35_PostedOnlyWithSingleStep ==
    /\ pc = "executing" =>
          Len(StepRowsOf(valid_case_df[loop.i].test_case_pid)) = 1
    /\ \A n \in DOMAIN PostedLogs :
          /\ Len(StepRowsOf(PostedLogs[n].test_case_pid)) = 1
          /\ PostedLogs[n].test_step_id =
                 StepRowsOf(PostedLogs[n].test_case_pid)[1].step_id
    /\ pc \in {"suite", "creating_suite", "runs", "creating_runs", "execute",
                "executing", "done"} =>
          \A k \in DOMAIN auto_result_df :
              Len(StepRowsOf(auto_result_df[k].test_case_pid)) # 1 =>
                  /\ auto_result_df[k].status # <<>>
                  /\ \A n \in DOMAIN RunRecords :
                        RunRecords[n].test_case_pid # auto_result_df[k].test_case_pid
                  /\ \A r \in DOMAIN ReturnsOf("runs") :
                        valid_case_df[ReturnsOf("runs")[r].key].test_case_pid
                            # auto_result_df[k].test_case_pid
                  /\ \A n \in DOMAIN PostedLogs :
                        PostedLogs[n].test_case_pid # auto_result_df[k].test_case_pid

\* C35 witness: the pipeline has ended; a target whose pid has two step rows
\* has a diagnostic status and another target's result was posted with the
\* id of its one step.
C35_Witness ==
    /\ pc = "done"
    /\ \E k \in DOMAIN auto_result_df :
          /\ Len(StepRowsOf(auto_result_df[k].test_case_pid)) = 2
          /\ auto_result_df[k].status # <<>>
    /\ \E n \in DOMAIN PostedLogs :
          /\ ReturnsOf("logs")[n].how = "201"
          /\ PostedLogs[n].test_step_id =
                 StepRowsOf(PostedLogs[n].test_case_pid)[1].step_id
\* The rows of the fetched table whose version lookup failed on every
\* attempt.
LookupFailed ==
    {i \in DOMAIN fetched_df :
        /\ ~endswith(fetched_df[i].version, DotZero)
        /\ ReturnsOf("versions")[LookupIndex(i)].how = "exhausted"}

\* C40: a version lookup that failed on every attempt is handled like a
\* history without approved version: the resolver does not raise, the case
\* keeps its id, version and versionRef, is not in the changed subset (no
\* step re-fetch is made for it), and every remaining case is looked up.
C40_FailedLookupKeepsCase ==
    /\ fetched_df # <<>> => error # "ValueError"
    /\ ResolverReturned =>
          /\ \A i \in LookupFailed :
                /\ test_case_df[i] = fetched_df[i]
                /\ fetched_df[i].pid \notin ChangedPids
          /\ Len(ReturnsOf("versions")) = Len(needs_update(fetched_df))
          /\ Len(ReturnsOf("steps")) <= Len(fetched_df) - Cardinality(LookupFailed)

\* C40 witness: the lookup of the first of two cases failed on each of two
\* attempts, the second case was looked up after it and changed.
C40_Witness ==
    /\ ResolverReturned
    /\ CONFIG.request_retries = 2
    /\ Len(fetched_df) = 2
    /\ LookupFailed = {1}
    /\ test_case_df[1] = fetched_df[1]
    /\ ChangedPids = {fetched_df[2].pid}
====
